---- MODULE Spec2Model ----
(***************************************************************************)
(* State-machine model of the SponsorBlockTV-Web device control plane      *)
(* (src/backend/sponsorblocktv_web/main.py):                               *)
(*   - DeviceListener: the coalescing ingress queue, the state processor,  *)
(*     process_playstatus and the scheduled skip task;                     *)
(*   - monitor_devices: the reconciler that keeps the live listener map    *)
(*     equal to the devices table.                                         *)
(* Times and positions are in centiseconds (1 s = 100), so that the        *)
(* 0.25 s and 0.05 s thresholds of the code are integers.  Device offsets  *)
(* are in milliseconds, as the devices table stores them.                  *)
(***************************************************************************)
EXTENDS Integers, Sequences, FiniteSets, TLC

None == "None"

\* ------------------------------------------------------------------ bounds
\* Number of state updates the lounge session delivers to one controller.
MaxUpdates == 3
\* Number of supervisors the runtime starts over one run (boot + reconciler).
MaxStarts == 3
\* Number of edits the management surface makes to the devices table.
MaxEdits == 2
\* Last value of the monotonic clock of the watch-session specification.
MaxClock == 4
\* Number of state updates delivered in the watch-session specification.
MaxSessUpdates == 2

\* ------------------------------------------------------- program constants
\* DeviceListener.SEGMENT_EPSILON = 0.25 s
SEGMENT_EPSILON == 25
\* same_plan: abs(skip_task_segment_start - start_next_segment) < 0.05 s
SAME_PLAN_TOLERANCE == 5
\* state_value == 1: playing
PLAYING == 1
\* asyncio.Queue(maxsize=1)
QUEUE_MAXSIZE == 1
\* DeviceListener.WATCH_FLUSH_INTERVAL = 5.0 s, in units of 2.5 s
WATCH_FLUSH_INTERVAL == 2

\* ------------------------------------------------------------ input domains
Videos == {"v1", "v2"}
Cpns == {"c1", "c2", "c3"}
UUIDs == {"u1", "u2"}
\* (videoId, cpn) pairs carried by updates: c1 and c3 are two playbacks of v1,
\* c2 is a playback of v2; an update may also omit the cpn or both fields.
IdPairs ==
    { <<"v1", "c1">>, <<"v2", "c2">>, <<"v1", "c3">>, <<"v2", None>>, <<None, None>> }
\* currentTime values (centiseconds) of playing updates.
Positions == {0, 600, 603, 1100}
\* state values of updates: 1 is playing (the only value the code tests for),
\* 2 stands for every other state (paused, idle, buffering, advert).
StateValues == {1, 2}

\* What api_helper.get_segments returns for a video: ranges sorted by start.
\* v1 has two ranges, v2 has none.
SegmentsOf(video) ==
    IF video = "v1"
    THEN << [start |-> 500, end |-> 1000, UUID |-> {"u1"}],
            [start |-> 2000, end |-> 2500, UUID |-> {"u2"}] >>
    ELSE << >>

\* ------------------------------------------------------------------- state
VARIABLES
    \* DeviceListener fields
    state_queue,                \* asyncio.Queue(maxsize=1) of updates
    current_video_id,
    current_cpn,
    completed_segment_uuids,
    skip_task,                  \* id of the task self.skip_task refers to, 0 = None
    skip_task_video,
    skip_task_segment_start,    \* -1 = None
    \* the processor task (_state_processor / process_playstatus)
    procPc,                     \* where the processor task is suspended
    cur,                        \* the update being processed
    awaited,                    \* the task awaited in _cancel_skip_task
    sel,                        \* index of the range _select_next_segment chose
    \* the skip tasks (_wait_and_skip), by the seq of the update that made them
    tasks,
    \* history, for stating the properties
    nReceived,                  \* number of updates delivered so far
    nProcessed,                 \* number of process_playstatus executions
    lastProcSeq,                \* seq of the update last taken from the queue
    lastResult,                 \* how the last process_playstatus ended
    seekLog,                    \* the last seek issued: plan and playback at that time
    \* reconciler
    devices,                    \* the devices table: screen_id -> stored row
    listeners,                  \* the live handle map: screen_id -> handle
    sups,                       \* every supervisor ever started, by instance id
    monPc,                      \* where monitor_devices is
    desired,                    \* the snapshot the tick loaded
    todo,                       \* screen_ids the current loop has still to visit
    visiting,                   \* the screen_id whose supervisor is being replaced
    tick,                       \* the current/last tick: none, clean, failed, aborted
    tickStartLive,              \* the supervisors in the live map when the tick began
    nStarts,                    \* supervisors started so far
    faults,                     \* a start or a stop has raised so far
    nEdits,                     \* edits of the devices table so far
    \* watch session of one controller
    clock,                      \* time.monotonic(), in units of 2.5 s
    sQueue,                     \* state_queue
    nSessReceived,              \* number of updates delivered so far
    sPc,                        \* where the processor task is suspended
    sCur,                       \* the update being processed
    sPend,                      \* the processor's record_watch_time call in flight
    lastState,                  \* state of the update last taken for processing
    playback_started_at,        \* -1 = None
    last_watch_emit_at,         \* -1 = None
    watchBalance,               \* watch_time_seconds increments written so far,
                                \* minus the lengths of the sessions closed so far
    hbPc,                       \* where the heartbeat task is
    hbWake,                     \* when its sleep ends
    hbPend,                     \* the heartbeat's record_watch_time call in flight
    cancelled,                  \* self.cancelled
    shutPc,                     \* where cancel() is
    shutPend,                   \* cancel()'s record_watch_time call in flight
    connected,                  \* the lounge session is connected
    skipPending,                \* a skip is scheduled
    \* one scheduled skip, from _schedule_skip to the end of its task
    kPc,                        \* where the scheduling / the skip task is
    kVideo,                     \* videoId of the update
    kPrior,                     \* the skip scheduled before the update, if any
    kPriorPc,                   \* that skip's task: none, pending, cancelled
    kSegments,                  \* the ranges get_segments returned
    kCompleted,                 \* completed_segment_uuids
    kPosition,                  \* currentTime of the update
    kElapsed,                   \* time since the update was received
    kSpeed,                     \* lounge_controller.playback_speed
    kOffset,                    \* self.offset
    kSel,                       \* index of the selected range, 0 = none
    kPlan,                      \* the arguments of _wait_and_skip
    kSlot,                      \* self.skip_task is set
    kWait,                      \* time_to_next
    kFiredAt,                   \* time since the update at which the calls were issued
    kSeekTo,                    \* the position seek_to was called with, -1 = not called
    kSeek,                      \* the seek_to call: none, pending, ok, failed
    kMark,                      \* the mark_viewed_segments call
    kStats,                     \* the Stats Sink counters
    kCounted,                   \* record_segment_skip returned and the UUIDs were added
    \* one supervisor: its loop task, its refresh task, and stop_listener
    lPc,                        \* the await loop() is suspended in
    lSeen,                      \* what the current loop iteration has seen
    lCancelReq,                 \* loop_task.cancel() was called, not yet delivered
    rPc,                        \* the await refresh_auth_loop() is suspended in
    rCancelReq,                 \* refresh_task.cancel() was called, not yet delivered
    supCancelled,               \* self.cancelled
    linked,                     \* lounge_controller.linked()
    available,                  \* what lounge_controller.is_available() returns
    lConnected,                 \* lounge_controller.connected()
    stopPc,                     \* where stop_listener is
    \* the stats table and the connections writing to it
    stTable,                    \* the committed rows: device or __global__, metric
    stPending,                  \* the rows as the open transaction sees them
    stLock,                     \* the writer holding the database's write lock, or 0
    stConn,                     \* each writer's call and the statement it is at
    \* the controller's record_video_started calls
    videos_watched,             \* videos_watched increments written so far
    \* one device row on its way to a supervisor's preferences
    pConfig,                    \* the Config object of the service
    pRaw,                       \* the overrides column of the device row
    pOverrides,                 \* the overrides of the snapshot
    pPrefs,                     \* the DevicePreferences of the supervisor
    pPc,                        \* stored, loaded or started
    \* the configuration store and its two processes
    cStore,                     \* the settings in the store
    cService,                   \* the service's Config object and web_session
    cApiTrust,                  \* trust_env of the API's client session
    cRow,                       \* the device's row in the store
    cSup,                       \* the device's supervisor
    cEdited,                    \* the API changed the settings since the start
    \* the stored overrides of a device and a payload merged into them
    mExisting,                  \* the overrides stored for the device
    mPayload,                   \* the payload of the request
    mResult,                    \* what merge_overrides returned
    mPc,                        \* given or merged
    \* the heartbeat tasks of one controller
    whTasks,                    \* each heartbeat task created: its position and whether cancel() was called on it
    watch_heartbeat_task,       \* the reference held by the controller: a task id, 0 for None
    whCancelled,                \* self.cancelled
    whSession,                  \* playback_started_at is not None
    whProc,                     \* the state processor: "get", "busy" with an update, "done"
    whUpdate,                   \* the update the processor is busy with is a playing one
    whShut,                     \* position of cancel()
    whJoin                      \* the heartbeat task cancel() hands to its gather: a task id, 0 for None

ctlVars ==
    << state_queue, current_video_id, current_cpn, completed_segment_uuids,
       skip_task, skip_task_video, skip_task_segment_start,
       procPc, cur, awaited, sel, tasks,
       nReceived, nProcessed, lastProcSeq, lastResult, seekLog >>

recVars ==
    << devices, listeners, sups, monPc, desired, todo, visiting, tick,
       tickStartLive, nStarts, faults, nEdits >>

sessVars ==
    << clock, sQueue, nSessReceived, sPc, sCur, sPend, lastState,
       playback_started_at, last_watch_emit_at, watchBalance,
       hbPc, hbWake, hbPend, cancelled, shutPc, shutPend, connected, skipPending >>

\* The variables outside the controller's scheduling and the reconciler.
skipVars ==
    << kPc, kVideo, kPrior, kPriorPc, kSegments, kCompleted, kPosition, kElapsed, kSpeed, kOffset, kSel,
       kPlan, kSlot, kWait, kFiredAt, kSeekTo, kSeek, kMark, kStats, kCounted >>

supVars ==
    << lPc, lSeen, lCancelReq, rPc, rCancelReq, supCancelled, linked, available,
       lConnected, stopPc >>

\* The variables of the specifications added after the first four.
statVars == << stTable, stPending, stLock, stConn >>

cntVars == << videos_watched >>

prefVars == << pConfig, pRaw, pOverrides, pPrefs, pPc >>

cfgVars == << cStore, cService, cApiTrust, cRow, cSup, cEdited >>

mrgVars == << mExisting, mPayload, mResult, mPc >>

whVars == << whTasks, watch_heartbeat_task, whCancelled, whSession, whProc, whUpdate, whShut, whJoin >>

extVars == << supVars, statVars, cntVars, prefVars, cfgVars, mrgVars, whVars >>

addVars == << sessVars, skipVars, extVars >>

vars == << ctlVars, recVars, addVars >>

NoSessUpdate == [state |-> 0, reset |-> FALSE, t |-> 0]
NoWrite == [delta |-> 0, now |-> 0]


\* A controller whose watch session was never opened.
SessFresh ==
    /\ sQueue = << >>
    /\ nSessReceived = 0
    /\ sCur = NoSessUpdate
    /\ sPend = NoWrite
    /\ lastState = 0
    /\ playback_started_at = -1
    /\ last_watch_emit_at = -1
    /\ watchBalance = 0
    /\ hbPc = "none"
    /\ hbWake = 0
    /\ hbPend = NoWrite
    /\ cancelled = FALSE
    /\ shutPend = NoWrite
    /\ skipPending = FALSE

\* The watch session is not part of the other specifications.
SessIdle ==
    /\ SessFresh
    /\ clock = 0
    /\ sPc = "off"
    /\ shutPc = "off"
    /\ connected = FALSE

\* The single-skip variables are not part of the other specifications.
SkipIdle ==
    /\ kPc = "off"
    /\ kVideo = None
    /\ kPrior = [video |-> None, start |-> -1]
    /\ kPriorPc = "none"
    /\ kSegments = << >>
    /\ kCompleted = {}
    /\ kPosition = 0
    /\ kElapsed = 0
    /\ kSpeed = 1
    /\ kOffset = 0
    /\ kSel = 0
    /\ kPlan = [start |-> 0, end |-> 0, UUID |-> {}, categories |-> << >>]
    /\ kSlot = FALSE
    /\ kWait = 0
    /\ kFiredAt = -1
    /\ kSeekTo = -1
    /\ kSeek = "none"
    /\ kMark = "none"
    /\ kStats = [segments_skipped |-> 0]
    /\ kCounted = FALSE

\* The supervisor is not part of the other specifications.
SupIdle ==
    /\ lPc = "off"
    /\ lSeen = [linked |-> FALSE, available |-> FALSE, connected |-> FALSE,
                restarted |-> FALSE]
    /\ lCancelReq = FALSE
    /\ rPc = "off"
    /\ rCancelReq = FALSE
    /\ supCancelled = FALSE
    /\ linked = FALSE
    /\ available = FALSE
    /\ lConnected = FALSE
    /\ stopPc = "off"

\* No statistics are written in the other specifications.
StatIdle ==
    /\ stTable = << >>
    /\ stPending = << >>
    /\ stLock = 0
    /\ stConn = << >>

\* No video has been counted.
CntIdle == videos_watched = 0

\* No preferences are resolved.
PrefIdle ==
    /\ pConfig = << >>
    /\ pRaw = << >>
    /\ pOverrides = << >>
    /\ pPrefs = << >>
    /\ pPc = "off"

\* No configuration is edited.
CfgIdle ==
    /\ cStore = << >>
    /\ cService = << >>
    /\ cApiTrust = FALSE
    /\ cRow = << >>
    /\ cSup = << >>
    /\ cEdited = FALSE

\* No overrides are merged.
MrgIdle ==
    /\ mExisting = << >>
    /\ mPayload = << >>
    /\ mResult = << >>
    /\ mPc = "off"

\* No heartbeat task is followed.
WhIdle ==
    /\ whTasks = << >>
    /\ watch_heartbeat_task = 0
    /\ whCancelled = FALSE
    /\ whSession = FALSE
    /\ whProc = "off"
    /\ whUpdate = FALSE
    /\ whShut = "off"
    /\ whJoin = 0

ExtIdle == SupIdle /\ StatIdle /\ CntIdle /\ PrefIdle /\ CfgIdle /\ MrgIdle /\ WhIdle

supFrame ==
    << ctlVars, recVars, sessVars, skipVars, statVars, cntVars, prefVars, cfgVars, mrgVars, whVars >>

statFrame ==
    << ctlVars, recVars, sessVars, skipVars, supVars, cntVars, prefVars, cfgVars, mrgVars, whVars >>

prefFrame ==
    << ctlVars, recVars, sessVars, skipVars, supVars, statVars, cntVars, cfgVars, mrgVars, whVars >>

cfgFrame ==
    << ctlVars, recVars, sessVars, skipVars, supVars, statVars, cntVars, prefVars, mrgVars, whVars >>

mrgFrame ==
    << ctlVars, recVars, sessVars, skipVars, supVars, statVars, cntVars, prefVars, cfgVars, whVars >>

whFrame ==
    << ctlVars, recVars, sessVars, skipVars, supVars, statVars, cntVars, prefVars, cfgVars, mrgVars >>



\* ------------------------------------------------------ DeviceListener: data
NoUpdate == [video |-> None, cpn |-> None, state |-> 0, pos |-> 0, seq |-> 0]

\* The updates the lounge session can deliver as its seq-th callback.
UpdatesAt(seq) ==
    { [video |-> ip[1], cpn |-> ip[2], state |-> PLAYING, pos |-> p, seq |-> seq] :
        ip \in IdPairs, p \in Positions }
    \cup
    { [video |-> ip[1], cpn |-> ip[2], state |-> st, pos |-> 0, seq |-> seq] :
        ip \in IdPairs, st \in StateValues \ {PLAYING} }

TaskIds == 1..MaxUpdates

\* A slot no task was created in yet / a task that has finished.
NoTask ==
    [pc |-> "none", cancelReq |-> FALSE, video |-> None, cpn |-> None,
     start |-> 0, end |-> 0, UUID |-> {}, pos |-> 0]
DoneTask(t) == [NoTask EXCEPT !.pc = "done", !.cancelReq = t.cancelReq]

\* A skip task that is pending or running (asyncio: not done()).
TaskAlive(t) == tasks[t].pc \in {"new", "sleep", "seek", "record"}
AliveTasks == { t \in TaskIds : TaskAlive(t) }

\* ---------------------------------------------- DeviceListener: pure helpers
\* A selection that takes the first range of the list whatever it is.
SelectFirstSegment(segments, position, completed) ==
    IF segments = << >> THEN 0 ELSE 1

\* _select_next_segment: index of the first range that is not malformed, not
\* wholly completed, and either contains the position (more than SEGMENT_EPSILON
\* before its end) or lies ahead of it; 0 when there is none.
SegmentSelectableIgnoringCompleted(segment, position, completed) ==
    /\ ~(segment.start > segment.end)
    /\ \/ (segment.start <= position /\ position < segment.end - SEGMENT_EPSILON)
       \/ segment.start > position

SegmentSelectable(segment, position, completed) ==
    /\ ~(segment.start > segment.end)
    /\ ~(segment.UUID # {} /\ segment.UUID \subseteq completed)
    /\ \/ (segment.start <= position /\ position < segment.end - SEGMENT_EPSILON)
       \/ segment.start > position

_select_next_segment(segments, position, completed) ==
    LET ok == { i \in 1..Len(segments) :
                  SegmentSelectable(segments[i], position, completed) }
    IN  IF ok = {} THEN 0 ELSE CHOOSE i \in ok : \A j \in ok : i <= j

\* start_next_segment of _schedule_skip
PlanStartAtRangeStart(segment, position) == segment.start

PlanStart(segment, position) ==
    IF segment.start <= position /\ position < segment.end
    THEN position ELSE segment.start

Abs(x) == IF x < 0 THEN -x ELSE x

\* same_plan of _schedule_skip (lines 277-283), as a function of the fields it
\* reads: task_set is `self.skip_task`, task_running is `not skip_task.done()`.
SamePlanForAnyVideo(task_set, task_running, task_video, task_segment_start, video_id, start_next_segment) ==
    /\ task_set
    /\ task_running
    /\ task_segment_start # -1
    /\ Abs(task_segment_start - start_next_segment) < SAME_PLAN_TOLERANCE

SamePlanFor(task_set, task_running, task_video, task_segment_start, video_id, start_next_segment) ==
    /\ task_set
    /\ task_running
    /\ task_video = video_id
    /\ task_segment_start # -1
    /\ Abs(task_segment_start - start_next_segment) < SAME_PLAN_TOLERANCE

\* same_plan for the controller's fields.
SamePlan(video_id, start_next_segment) ==
    SamePlanFor(skip_task # 0,
                skip_task # 0 /\ tasks[skip_task].pc # "done",
                skip_task_video, skip_task_segment_start,
                video_id, start_next_segment)


\* ------------------------------------------------ DeviceListener: ingress
\* A coalescing queue that keeps the queued update and drops the new one.
EnqueueDropNewest(queue, update) ==
    IF Len(queue) < QUEUE_MAXSIZE THEN Append(queue, update) ELSE queue

\* _enqueue_state: put_nowait; on QueueFull drop the queued update, then put.
EnqueueState(queue, update) ==
    IF Len(queue) < QUEUE_MAXSIZE
    THEN Append(queue, update)
    ELSE Append(Tail(queue), update)

\* __call__: the lounge session delivers one more update, one of `updates`.
Deliver(updates) ==
    /\ nReceived < MaxUpdates
    /\ \E update \in updates :
          state_queue' = EnqueueState(state_queue, update)
    /\ nReceived' = nReceived + 1
    /\ UNCHANGED << current_video_id, current_cpn, completed_segment_uuids,
                    skip_task, skip_task_video, skip_task_segment_start,
                    procPc, cur, awaited, sel, tasks,
                    nProcessed, lastProcSeq, lastResult, seekLog >>
    /\ UNCHANGED recVars
    /\ UNCHANGED addVars

Receive == Deliver(UpdatesAt(nReceived + 1))

\* The same, from a session that plays v1 and v2 once each.
ReceiveFew ==
    Deliver({ u \in UpdatesAt(nReceived + 1) :
                /\ <<u.video, u.cpn>> \in { <<"v1", "c1">>, <<"v2", "c2">> }
                /\ u.pos \in {0, 600} })

\* --------------------------------------------- DeviceListener: the processor
\* A get() that hands out the queued update without removing it.
QueuePeek(queue) == [item |-> Head(queue), rest |-> queue]

\* What _state_processor's queue.get() hands out and what it leaves queued.
QueueGet(queue) == [item |-> Head(queue), rest |-> Tail(queue)]

\* _state_processor: take the queued update and enter process_playstatus,
\* which suspends in stats.mark_device_seen.
ProcGet ==
    /\ procPc = "get"
    /\ state_queue # << >>
    /\ cur' = QueueGet(state_queue).item
    /\ state_queue' = QueueGet(state_queue).rest
    /\ procPc' = "seen"
    /\ nProcessed' = nProcessed + 1
    /\ lastProcSeq' = QueueGet(state_queue).item.seq
    /\ lastResult' = "running"
    /\ UNCHANGED << current_video_id, current_cpn, completed_segment_uuids,
                    skip_task, skip_task_video, skip_task_segment_start,
                    awaited, sel, tasks, nReceived, seekLog >>
    /\ UNCHANGED recVars
    /\ UNCHANGED addVars

\* A _state_processor without its `except Exception`: the exception ends the
\* processor task.
ProcFailStops ==
    /\ procPc \in {"seen", "vstart", "fetch"}
    /\ procPc' = "stopped"
    /\ lastResult' = "failed"
    /\ UNCHANGED << state_queue, current_video_id, current_cpn,
                    completed_segment_uuids, skip_task, skip_task_video,
                    skip_task_segment_start, cur, awaited, sel, tasks,
                    nReceived, nProcessed, lastProcSeq, seekLog >>
    /\ UNCHANGED recVars
    /\ UNCHANGED addVars

\* An awaited call of process_playstatus raised (a stats write or the segment
\* fetch): _state_processor logs it and goes back to the queue.
ProcFail ==
    /\ procPc \in {"seen", "vstart", "fetch"}
    /\ procPc' = "get"
    /\ lastResult' = "failed"
    /\ UNCHANGED << state_queue, current_video_id, current_cpn,
                    completed_segment_uuids, skip_task, skip_task_video,
                    skip_task_segment_start, cur, awaited, sel, tasks,
                    nReceived, nProcessed, lastProcSeq, seekLog >>
    /\ UNCHANGED recVars
    /\ UNCHANGED addVars

\* A test that counts every update carrying a video id.
VideoPresent(update) == update.video # None

\* Whether the update changes the playback identity (lines 163-166, 169, 173).
CpnChanged(update) == update.cpn # None /\ update.cpn # current_cpn
VideoChanged(update) == update.video # None /\ update.video # current_video_id

\* The completed set after the cpn part of process_playstatus (lines 169-171).
CompletedAfterCpn(update) ==
    IF CpnChanged(update) THEN {} ELSE completed_segment_uuids

\* process_playstatus from the return of mark_device_seen (and of the watch
\* flush) to its next suspension: adopt the cpn, clear the completed set,
\* adopt the video id; then record_video_started or get_segments is awaited.
ProcSeen ==
    /\ procPc = "seen"
    /\ current_cpn' = IF CpnChanged(cur) THEN cur.cpn ELSE current_cpn
    /\ completed_segment_uuids' = CompletedAfterCpn(cur)
    /\ current_video_id' = IF VideoChanged(cur) THEN cur.video ELSE current_video_id
    /\ procPc' = IF VideoChanged(cur) THEN "vstart" ELSE "fetch"
    /\ UNCHANGED << state_queue, skip_task, skip_task_video, skip_task_segment_start,
                    cur, awaited, sel, tasks,
                    nReceived, nProcessed, lastProcSeq, lastResult, seekLog >>
    /\ UNCHANGED recVars
    /\ UNCHANGED addVars

\* record_video_started returned, its increment of videos_watched written:
\* clear the completed set (line 176), then get_segments is awaited.
ProcVideoStarted ==
    /\ procPc = "vstart"
    /\ videos_watched' = videos_watched + 1
    /\ completed_segment_uuids' = {}
    /\ procPc' = "fetch"
    /\ UNCHANGED << state_queue, current_video_id, current_cpn,
                    skip_task, skip_task_video, skip_task_segment_start,
                    cur, awaited, sel, tasks,
                    nReceived, nProcessed, lastProcSeq, lastResult, seekLog >>
    /\ UNCHANGED recVars
    /\ UNCHANGED << sessVars, skipVars, supVars, statVars, prefVars, cfgVars, mrgVars, whVars >>


\* ------------------------------------ DeviceListener: scheduling the skip
\* The task object _schedule_skip creates (asyncio.create_task(_wait_and_skip)).
\* video and cpn record the playback the plan was made for.
NewTask(update, segment) ==
    [pc |-> "new", cancelReq |-> FALSE,
     video |-> update.video, cpn |-> current_cpn,
     start |-> PlanStart(segment, update.pos), end |-> segment.end,
     UUID |-> segment.UUID, pos |-> update.pos]

\* A _cancel_skip_task that drops the reference without cancelling and awaiting.
CancelNeverWaits(ref) == ref # ref

\* _cancel_skip_task: whether `await self.skip_task` suspends the caller, i.e.
\* there is a task and it has not finished yet.
CancelMustWait(ref) == ref # 0 /\ tasks[ref].pc # "done"

\* process_playstatus returns normally.
EndUpdate ==
    /\ procPc' = "get"
    /\ lastResult' = "ok"
    /\ awaited' = 0
    /\ sel' = 0

\* _schedule_skip after _cancel_skip_task returned (lines 288-306): install the
\* plan for range s of the update's video; s = 0: nothing to install.
\* hadTask: _cancel_skip_task ran its finally block and cleared the fields.
InstallOrEnd(s, hadTask) ==
    /\ EndUpdate
    /\ IF s # 0
       THEN LET segment == SegmentsOf(cur.video)[s] IN
            /\ skip_task' = cur.seq
            /\ skip_task_video' = cur.video
            /\ skip_task_segment_start' = PlanStart(segment, cur.pos)
            /\ tasks' = [tasks EXCEPT ![cur.seq] = NewTask(cur, segment)]
       ELSE /\ skip_task' = 0
            /\ skip_task_video' = IF hadTask THEN None ELSE skip_task_video
            /\ skip_task_segment_start' = IF hadTask THEN -1 ELSE skip_task_segment_start
            /\ tasks' = tasks

\* _cancel_skip_task, called with range s still to install (0: none).
CancelSkipTask(s) ==
    IF CancelMustWait(skip_task)
    THEN /\ tasks' = [tasks EXCEPT ![skip_task].cancelReq = TRUE]
         /\ awaited' = skip_task
         /\ sel' = s
         /\ procPc' = "cancelwait"
         /\ UNCHANGED << skip_task, skip_task_video, skip_task_segment_start,
                         lastResult >>
    ELSE InstallOrEnd(s, skip_task # 0)

\* process_playstatus from the return of get_segments and _record_watch_time to
\* its end or to the suspension in _cancel_skip_task (lines 178-190, 266-306).
ProcFetched ==
    /\ procPc = "fetch"
    /\ LET segments == SegmentsOf(cur.video)
           s == _select_next_segment(segments, cur.pos, completed_segment_uuids)
       IN  IF cur.state = PLAYING
           THEN IF segments # << >>
                THEN IF s # 0 /\ SamePlan(cur.video, PlanStart(segments[s], cur.pos))
                     THEN /\ EndUpdate
                          /\ UNCHANGED << skip_task, skip_task_video,
                                          skip_task_segment_start, tasks >>
                     ELSE CancelSkipTask(s)
                ELSE /\ EndUpdate
                     /\ UNCHANGED << skip_task, skip_task_video,
                                     skip_task_segment_start, tasks >>
           ELSE CancelSkipTask(0)
    /\ UNCHANGED << state_queue, current_video_id, current_cpn,
                    completed_segment_uuids, cur,
                    nReceived, nProcessed, lastProcSeq, seekLog >>
    /\ UNCHANGED recVars
    /\ UNCHANGED addVars

\* _cancel_skip_task resumes: the awaited task has finished; the finally block
\* clears the three fields, then _schedule_skip installs the new plan.
ProcCancelDone ==
    /\ procPc = "cancelwait"
    /\ tasks[awaited].pc = "done"
    /\ InstallOrEnd(sel, TRUE)
    /\ UNCHANGED << state_queue, current_video_id, current_cpn,
                    completed_segment_uuids, cur,
                    nReceived, nProcessed, lastProcSeq, seekLog >>
    /\ UNCHANGED recVars
    /\ UNCHANGED addVars

\* ------------------------------------------ DeviceListener: the skip task
\* The finally block of _wait_and_skip.
TaskFinally ==
    /\ skip_task' = 0
    /\ skip_task_video' = None
    /\ skip_task_segment_start' = -1

\* The seek a task issues, with the playback the controller is in at that time.
SeekIssued(t) ==
    [issued |-> TRUE, end |-> tasks[t].end, pos |-> tasks[t].pos,
     stale |-> /\ procPc = "get"
               /\ lastResult = "ok"
               /\ (tasks[t].video # current_video_id \/ tasks[t].cpn # current_cpn)]

ctlFrame ==
    << state_queue, current_video_id, current_cpn, procPc, cur, awaited, sel,
       nReceived, nProcessed, lastProcSeq, lastResult >>

\* _wait_and_skip starts running.  A range still ahead is slept for
\* (asyncio.sleep in skip()); a plan that starts at the current position has
\* time_to_next <= 0 and issues the seek at once.
TaskStart(t) ==
    /\ tasks[t].pc = "new"
    /\ ~tasks[t].cancelReq
    /\ IF tasks[t].start > tasks[t].pos
       THEN /\ tasks' = [tasks EXCEPT ![t].pc = "sleep"]
            /\ UNCHANGED seekLog
       ELSE /\ tasks' = [tasks EXCEPT ![t].pc = "seek"]
            /\ seekLog' = SeekIssued(t)
    /\ UNCHANGED << completed_segment_uuids, skip_task, skip_task_video,
                    skip_task_segment_start >>
    /\ UNCHANGED ctlFrame
    /\ UNCHANGED recVars
    /\ UNCHANGED addVars

\* The sleep is over: skip() issues seek_to and mark_viewed_segments.
TaskWake(t) ==
    /\ tasks[t].pc = "sleep"
    /\ ~tasks[t].cancelReq
    /\ tasks' = [tasks EXCEPT ![t].pc = "seek"]
    /\ seekLog' = SeekIssued(t)
    /\ UNCHANGED << completed_segment_uuids, skip_task, skip_task_video,
                    skip_task_segment_start >>
    /\ UNCHANGED ctlFrame
    /\ UNCHANGED recVars
    /\ UNCHANGED addVars

\* gather(seek_to, mark_viewed_segments) returned: record_segment_skip is awaited.
TaskSeekDone(t) ==
    /\ tasks[t].pc = "seek"
    /\ ~tasks[t].cancelReq
    /\ tasks' = [tasks EXCEPT ![t].pc = "record"]
    /\ UNCHANGED << completed_segment_uuids, skip_task, skip_task_video,
                    skip_task_segment_start, seekLog >>
    /\ UNCHANGED ctlFrame
    /\ UNCHANGED recVars
    /\ UNCHANGED addVars

\* record_segment_skip returned: the UUIDs are marked completed and the task
\* clears itself.
TaskRecordDone(t) ==
    /\ tasks[t].pc = "record"
    /\ ~tasks[t].cancelReq
    /\ completed_segment_uuids' = completed_segment_uuids \cup tasks[t].UUID
    /\ tasks' = [tasks EXCEPT ![t] = DoneTask(tasks[t])]
    /\ TaskFinally
    /\ UNCHANGED seekLog
    /\ UNCHANGED ctlFrame
    /\ UNCHANGED recVars
    /\ UNCHANGED addVars

\* The seek, the mark-viewed report or the stats write raised: the task ends
\* with that exception, through its finally block.
TaskFail(t) ==
    /\ tasks[t].pc \in {"seek", "record"}
    /\ ~tasks[t].cancelReq
    /\ tasks' = [tasks EXCEPT ![t] = DoneTask(tasks[t])]
    /\ TaskFinally
    /\ UNCHANGED << completed_segment_uuids, seekLog >>
    /\ UNCHANGED ctlFrame
    /\ UNCHANGED recVars
    /\ UNCHANGED addVars

\* CancelledError is thrown into the task at its await; a task cancelled before
\* it first ran never enters its try block, so its finally block does not run.
TaskCancelled(t) ==
    /\ TaskAlive(t)
    /\ tasks[t].cancelReq
    /\ tasks' = [tasks EXCEPT ![t] = DoneTask(tasks[t])]
    /\ IF tasks[t].pc = "new"
       THEN UNCHANGED << skip_task, skip_task_video, skip_task_segment_start >>
       ELSE TaskFinally
    /\ UNCHANGED << completed_segment_uuids, seekLog >>
    /\ UNCHANGED ctlFrame
    /\ UNCHANGED recVars
    /\ UNCHANGED addVars

\* ------------------------------------------------- controller specification
NoSeek == [issued |-> FALSE, end |-> 0, pos |-> 0, stale |-> FALSE]

CtlInit ==
    /\ state_queue = << >>
    /\ current_video_id = None
    /\ current_cpn = None
    /\ completed_segment_uuids = {}
    /\ skip_task = 0
    /\ skip_task_video = None
    /\ skip_task_segment_start = -1
    /\ procPc = "get"
    /\ cur = NoUpdate
    /\ awaited = 0
    /\ sel = 0
    /\ tasks = [t \in TaskIds |-> NoTask]
    /\ nReceived = 0
    /\ nProcessed = 0
    /\ lastProcSeq = 0
    /\ lastResult = "none"
    /\ seekLog = NoSeek

\* The reconciler is not part of the controller specification.
RecIdle ==
    /\ devices = [d \in {} |-> 0]
    /\ listeners = [d \in {} |-> 0]
    /\ sups = [d \in {} |-> 0]
    /\ monPc = "off"
    /\ desired = [d \in {} |-> 0]
    /\ todo = {}
    /\ visiting = None
    /\ tick = "none"
    /\ tickStartLive = {}
    /\ nStarts = 0
    /\ faults = FALSE
    /\ nEdits = 0

CtlNext ==
    \/ Receive
    \/ ProcGet
    \/ ProcFail
    \/ ProcSeen
    \/ ProcVideoStarted
    \/ ProcFetched
    \/ ProcCancelDone
    \/ \E t \in TaskIds : TaskStart(t)
    \/ \E t \in TaskIds : TaskWake(t)
    \/ \E t \in TaskIds : TaskSeekDone(t)
    \/ \E t \in TaskIds : TaskRecordDone(t)
    \/ \E t \in TaskIds : TaskFail(t)
    \/ \E t \in TaskIds : TaskCancelled(t)

InitCtl == CtlInit /\ RecIdle /\ SessIdle /\ SkipIdle /\ ExtIdle

SpecCtl == InitCtl /\ [][CtlNext]_vars


\* The same controller under the event loop's scheduling: a task that can run
\* is run, and every awaited call of the processor returns or raises.
ProcStep ==
    \/ ProcGet
    \/ ProcFail
    \/ ProcSeen
    \/ ProcVideoStarted
    \/ ProcFetched
    \/ ProcCancelDone

FairCtlNext ==
    \/ ReceiveFew
    \/ ProcStep
    \/ \E t \in TaskIds : TaskStart(t)
    \/ \E t \in TaskIds : TaskWake(t)
    \/ \E t \in TaskIds : TaskSeekDone(t)
    \/ \E t \in TaskIds : TaskRecordDone(t)
    \/ \E t \in TaskIds : TaskFail(t)
    \/ \E t \in TaskIds : TaskCancelled(t)

FairSpecCtl ==
    /\ InitCtl
    /\ [][FairCtlNext]_vars
    /\ WF_vars(ProcStep)
    /\ WF_vars(\E t \in TaskIds : TaskCancelled(t))

\* ------------------------------------------------------- reconciler: data
ScreenIds == {"d1", "d2"}
\* Column values of the devices table.  name "" stands for an empty name;
\* offset is in milliseconds; overrides is the stored JSON text: "" for
\* NULL/empty, "bad" for text that is not JSON, "cats" for
\* {"skip_categories": ["sponsor"]}.
StoredNames == {"", "TV"}
StoredOffsets == {0, 1, 9, 10}
StoredOverrides == {"", "bad", "cats"}
\* The rows the management surface writes: a plain row, or one that departs
\* from it in a single column.
PlainRow == [name |-> "TV", offset |-> 0, overrides |-> ""]
Departures(row) ==
    { c \in {"name", "offset", "overrides"} : row[c] # PlainRow[c] }
Rows ==
    { row \in [name : StoredNames, offset : StoredOffsets, overrides : StoredOverrides] :
        Cardinality(Departures(row)) <= 1 }

EmptyMap == [d \in {} |-> 0]
MapPut(f, d, v) == [x \in DOMAIN f \cup {d} |-> IF x = d THEN v ELSE f[x]]
MapKeep(f, d) == f
MapPop(f, d) == [x \in DOMAIN f \ {d} |-> f[x]]

\* sanitize_stored_overrides: the normalized overrides, as a set of
\* <<key, value>> pairs; empty or unparsable text gives no overrides.
sanitize_stored_overrides(raw) ==
    IF raw = "cats" THEN { <<"skip_categories", <<"sponsor">> >> } ELSE {}

\* The DeviceSnapshot _load_device_snapshots builds from a row.  offset holds
\* the integer n of the double float(n) / 1000.0.
SnapshotOfRow(screen_id, row) ==
    [name |-> IF row.name = "" THEN screen_id ELSE row.name,
     offset |-> row.offset,
     overrides |-> sanitize_stored_overrides(row.overrides)]

\* _load_device_snapshots: screen_id -> DeviceSnapshot for every row.
LoadDeviceSnapshots(table) ==
    [d \in DOMAIN table |-> SnapshotOfRow(d, table[d])]

\* _snapshot_from_device at boot: config.devices carries screen_id, name and
\* offset only (Config._load_from_db), so the overrides are empty.
SnapshotFromDevice(screen_id, row) ==
    [name |-> IF row.name = "" THEN screen_id ELSE row.name,
     offset |-> row.offset,
     overrides |-> sanitize_stored_overrides("")]

\* abs(a / 1000.0 - b / 1000.0) > 1e-3 in IEEE double arithmetic, for the
\* offsets of StoredOffsets.  A difference of 2 ms or more is above 1e-3 and
\* equal offsets are not.  For a 1 ms difference the rounding of the operands
\* decides: abs(0.0 - 0.001) = 0.001 is not above 1e-3, while
\* abs(0.009 - 0.01) = 0.0010000000000000009 is.
DoubleDiffAbove1ms(a, b) ==
    \/ Abs(a - b) > 1
    \/ {a, b} = {9, 10}

\* _snapshot_changed
_snapshot_changed(existing, new) ==
    \/ existing.name # new.name
    \/ existing.overrides # new.overrides
    \/ DoubleDiffAbove1ms(existing.offset, new.offset)

RemovableNever(live, wanted) == { d \in DOMAIN live : d \notin DOMAIN live }
\* The keys the second loop of a tick removes (lines 537-538).
Removable(live, wanted) == { d \in DOMAIN live : d \notin DOMAIN wanted }

SupIds == 1..MaxStarts
NoSup == [screen_id |-> None, loop |-> FALSE, ctl |-> FALSE]
\* A supervisor start_listener returned: the controller with its processor
\* task, the loop task and the auth-refresh task all run.
RunningSup(screen_id) == [screen_id |-> screen_id, loop |-> TRUE, ctl |-> TRUE]
\* start_listener raised in initialize_web_session: the DeviceListener was
\* constructed (its processor task created), no loop task was made.
FailedStartSup(screen_id) == [screen_id |-> screen_id, loop |-> FALSE, ctl |-> TRUE]
\* stop_listener returned: everything cancelled and joined.
StoppedSup(screen_id) == [screen_id |-> screen_id, loop |-> FALSE, ctl |-> FALSE]

LiveSups == { listeners[d].sup : d \in DOMAIN listeners }
\* The supervisors of a screen_id whose loop task (and lounge session) is alive.
AliveFor(d) == { i \in SupIds : sups[i].screen_id = d /\ sups[i].loop }

recFrame == << devices, desired, nEdits >>

\* ---------------------------------------------------- reconciler: actions
\* The management surface adds, changes or removes one device row.
Edit ==
    /\ nEdits < MaxEdits
    /\ monPc \in {"sleep", "loop1", "restart", "loop2"}
    /\ \E d \in ScreenIds :
          \/ \E row \in Rows : devices' = MapPut(devices, d, row)
          \/ d \in DOMAIN devices /\ devices' = MapPop(devices, d)
    /\ devices' # devices
    /\ nEdits' = nEdits + 1
    /\ UNCHANGED << listeners, sups, monPc, desired, todo, visiting, tick,
                    tickStartLive, nStarts >>
    /\ UNCHANGED faults
    /\ UNCHANGED ctlVars
    /\ UNCHANGED addVars

\* main_async before the monitor task: one supervisor per configured device.
Boot ==
    /\ monPc = "boot"
    /\ \E order \in [DOMAIN devices -> 1..Cardinality(DOMAIN devices)] :
          /\ \A d1 \in DOMAIN devices : \A d2 \in DOMAIN devices :
                order[d1] = order[d2] => d1 = d2
          /\ listeners' =
                [d \in DOMAIN devices |->
                    [snapshot |-> SnapshotFromDevice(d, devices[d]), sup |-> order[d]]]
          /\ sups' = [i \in SupIds |->
                        IF \E d \in DOMAIN devices : order[d] = i
                        THEN RunningSup(CHOOSE d \in DOMAIN devices : order[d] = i)
                        ELSE sups[i]]
    /\ nStarts' = Cardinality(DOMAIN devices)
    /\ monPc' = "sleep"
    /\ UNCHANGED << todo, visiting, tick, tickStartLive >>
    /\ UNCHANGED recFrame
    /\ UNCHANGED faults
    /\ UNCHANGED ctlVars
    /\ UNCHANGED addVars

\* A tick begins: the sleep is over and the devices table is read.
MonLoad ==
    /\ monPc = "sleep"
    /\ desired' = LoadDeviceSnapshots(devices)
    /\ todo' = DOMAIN devices
    /\ monPc' = "loop1"
    /\ tick' = "clean"
    /\ tickStartLive' = LiveSups
    /\ UNCHANGED << devices, listeners, sups, visiting, nStarts, nEdits >>
    /\ UNCHANGED faults
    /\ UNCHANGED ctlVars
    /\ UNCHANGED addVars

\* Reading the table raised: logged, and the loop sleeps again.
MonLoadFail ==
    /\ monPc = "sleep"
    /\ tick' = "aborted"
    /\ UNCHANGED << devices, listeners, sups, monPc, desired, todo, visiting,
                    tickStartLive, nStarts, nEdits >>
    /\ UNCHANGED faults
    /\ UNCHANGED ctlVars
    /\ UNCHANGED addVars

\* start_listener(snapshot) for screen_id d, as supervisor nStarts + 1:
\* it returns a handle, which is recorded, or raises, and nothing is recorded.
StartListener(d, ok) ==
    /\ nStarts < MaxStarts
    /\ nStarts' = nStarts + 1
    /\ IF ok
       THEN /\ sups' = [sups EXCEPT ![nStarts + 1] = RunningSup(d)]
            /\ listeners' =
                  MapPut(listeners, d, [snapshot |-> desired[d], sup |-> nStarts + 1])
            /\ UNCHANGED << tick, faults >>
       ELSE /\ sups' = [sups EXCEPT ![nStarts + 1] = FailedStartSup(d)]
            /\ listeners' = MapPop(listeners, d)
            /\ tick' = "failed"
            /\ faults' = TRUE

\* First loop, a desired device without a handle (lines 521-526).
MonStartNew(d) ==
    /\ monPc = "loop1"
    /\ d \in todo
    /\ d \notin DOMAIN listeners
    /\ \E ok \in BOOLEAN : StartListener(d, ok)
    /\ todo' = todo \ {d}
    /\ UNCHANGED << monPc, visiting, tickStartLive >>
    /\ UNCHANGED recFrame
    /\ UNCHANGED ctlVars
    /\ UNCHANGED addVars

\* First loop, a live device whose snapshot is unchanged: nothing is done.
MonKeep(d) ==
    /\ monPc = "loop1"
    /\ d \in todo
    /\ d \in DOMAIN listeners
    /\ ~_snapshot_changed(listeners[d].snapshot, desired[d])
    /\ todo' = todo \ {d}
    /\ UNCHANGED << listeners, sups, monPc, visiting, tick, tickStartLive, nStarts >>
    /\ UNCHANGED recFrame
    /\ UNCHANGED faults
    /\ UNCHANGED ctlVars
    /\ UNCHANGED addVars

\* stop_listener(handle): it returns with every task of the supervisor
\* cancelled and joined, or listener.cancel() raises (the watch flush or the
\* disconnect failed) before the loop and refresh tasks were cancelled.
StopListener(handle, ok) ==
    IF ok
    THEN /\ sups' = [sups EXCEPT ![handle.sup] = StoppedSup(sups[handle.sup].screen_id)]
         /\ UNCHANGED << tick, faults >>
    ELSE /\ sups' = sups
         /\ tick' = "failed"
         /\ faults' = TRUE

\* First loop, a live device whose snapshot changed: stop the old supervisor
\* (lines 527-531); the start of the replacement is awaited next.
MonStopChanged(d) ==
    /\ monPc = "loop1"
    /\ d \in todo
    /\ d \in DOMAIN listeners
    /\ _snapshot_changed(listeners[d].snapshot, desired[d])
    /\ \E ok \in BOOLEAN : StopListener(listeners[d], ok)
    /\ todo' = todo \ {d}
    /\ monPc' = "restart"
    /\ visiting' = d
    /\ UNCHANGED << listeners, tickStartLive, nStarts >>
    /\ UNCHANGED recFrame
    /\ UNCHANGED ctlVars
    /\ UNCHANGED addVars

\* The replacement is started (lines 532-536): recorded, or the key is popped.
MonRestart ==
    /\ monPc = "restart"
    /\ \E ok \in BOOLEAN : StartListener(visiting, ok)
    /\ monPc' = "loop1"
    /\ visiting' = None
    /\ UNCHANGED << todo, tickStartLive >>
    /\ UNCHANGED recFrame
    /\ UNCHANGED ctlVars
    /\ UNCHANGED addVars

\* The first loop is over: list(listeners.keys()) is taken for the second.
MonLoop2 ==
    /\ monPc = "loop1"
    /\ todo = {}
    /\ todo' = Removable(listeners, desired)
    /\ monPc' = "loop2"
    /\ UNCHANGED << listeners, sups, visiting, tick, tickStartLive, nStarts >>
    /\ UNCHANGED recFrame
    /\ UNCHANGED faults
    /\ UNCHANGED ctlVars
    /\ UNCHANGED addVars

\* Second loop, a live device that is no longer desired (lines 537-543): its
\* handle is popped, then its supervisor stopped.
MonRemove(d) ==
    /\ monPc = "loop2"
    /\ d \in todo
    /\ listeners' = MapPop(listeners, d)
    /\ \E ok \in BOOLEAN : StopListener(listeners[d], ok)
    /\ todo' = todo \ {d}
    /\ UNCHANGED << monPc, visiting, tickStartLive, nStarts >>
    /\ UNCHANGED recFrame
    /\ UNCHANGED ctlVars
    /\ UNCHANGED addVars

\* The tick is complete: the loop sleeps until the next one.
MonTickDone ==
    /\ monPc = "loop2"
    /\ todo = {}
    /\ monPc' = "sleep"
    /\ UNCHANGED << listeners, sups, todo, visiting, tick, tickStartLive, nStarts >>
    /\ UNCHANGED recFrame
    /\ UNCHANGED faults
    /\ UNCHANGED ctlVars
    /\ UNCHANGED addVars

\* ------------------------------------------------------ runtime shutdown
\* finish cancels the monitor task and joins it (lines 435-437); the
\* monitor's locals are gone afterwards.
MonitorGone ==
    /\ monPc' = "stopping"
    /\ desired' = EmptyMap
    /\ todo' = {}
    /\ visiting' = None
    /\ tick' = "none"
    /\ tickStartLive' = {}

\* The monitor is cancelled in its sleep or in the table read.
FinishWhileIdle ==
    /\ monPc = "sleep"
    /\ MonitorGone
    /\ UNCHANGED << devices, listeners, sups, nStarts, faults, nEdits >>
    /\ UNCHANGED ctlVars
    /\ UNCHANGED addVars

\* The monitor is cancelled inside start_listener, at initialize_web_session
\* (line 575): the DeviceListener and its processor task exist, no loop task
\* was created and no handle is recorded.
FinishDuringStart ==
    /\ nStarts < MaxStarts
    /\ \E d \in ScreenIds :
          /\ \/ monPc = "restart" /\ d = visiting
             \/ monPc = "loop1" /\ d \in todo /\ d \notin DOMAIN listeners
          /\ sups' = [sups EXCEPT ![nStarts + 1] = FailedStartSup(d)]
    /\ nStarts' = nStarts + 1
    /\ MonitorGone
    /\ UNCHANGED << devices, listeners, faults, nEdits >>
    /\ UNCHANGED ctlVars
    /\ UNCHANGED addVars

\* The monitor is cancelled inside stop_listener, while listener.cancel() is
\* awaited (line 419; at the latest in its gather, line 399): the
\* CancelledError is not an Exception, so it leaves stop_listener before the
\* loop and refresh tasks are cancelled (lines 420-422).  The controller's
\* processor task was cancelled already, or was not.  In the first loop the
\* handle is still in the map, in the second it was popped (line 539).
FinishDuringStop ==
    /\ \E d \in todo :
          /\ \/ /\ monPc = "loop1"
                /\ d \in DOMAIN listeners
                /\ _snapshot_changed(listeners[d].snapshot, desired[d])
                /\ listeners' = listeners
             \/ /\ monPc = "loop2"
                /\ listeners' = MapPop(listeners, d)
          /\ \E ctl \in BOOLEAN :
                sups' = [sups EXCEPT ![listeners[d].sup].ctl = @ /\ ctl]
    /\ MonitorGone
    /\ UNCHANGED << devices, nStarts, faults, nEdits >>
    /\ UNCHANGED ctlVars
    /\ UNCHANGED addVars

\* finish after the monitor has ended (lines 438-444): stop_listener for every
\* handle of the live map, exceptions collected and dropped; the map is
\* cleared; the shared client session and its connector are closed.
FinishStopAndClose ==
    /\ monPc = "stopping"
    /\ \E stopped \in SUBSET (DOMAIN listeners) :
          /\ sups' = [i \in SupIds |->
                        IF \E d \in stopped : listeners[d].sup = i
                        THEN StoppedSup(sups[i].screen_id) ELSE sups[i]]
          /\ faults' = (faults \/ stopped # DOMAIN listeners)
    /\ listeners' = EmptyMap
    /\ monPc' = "closed"
    /\ UNCHANGED << devices, desired, todo, visiting, tick, tickStartLive,
                    nStarts, nEdits >>
    /\ UNCHANGED ctlVars
    /\ UNCHANGED addVars

\* ------------------------------------------------- reconciler specification
\* The runtime starts with a validated configuration: at least one device.
RecInit ==
    /\ devices \in { MapPut(EmptyMap, "d1", row) : row \in Rows }
                   \cup { MapPut(MapPut(EmptyMap, "d1", row), "d2", PlainRow) : row \in Rows }
    /\ listeners = EmptyMap
    /\ sups = [i \in SupIds |-> NoSup]
    /\ monPc = "boot"
    /\ desired = EmptyMap
    /\ todo = {}
    /\ visiting = None
    /\ tick = "none"
    /\ tickStartLive = {}
    /\ nStarts = 0
    /\ faults = FALSE
    /\ nEdits = 0

RecNext ==
    \/ Edit
    \/ Boot
    \/ MonLoad
    \/ MonLoadFail
    \/ \E d \in ScreenIds : MonStartNew(d)
    \/ \E d \in ScreenIds : MonKeep(d)
    \/ \E d \in ScreenIds : MonStopChanged(d)
    \/ MonRestart
    \/ MonLoop2
    \/ \E d \in ScreenIds : MonRemove(d)
    \/ MonTickDone
    \/ FinishWhileIdle
    \/ FinishDuringStart
    \/ FinishDuringStop
    \/ FinishStopAndClose

InitRec == CtlInit /\ RecInit /\ SessIdle /\ SkipIdle /\ ExtIdle

SpecRec == InitRec /\ [][RecNext]_vars

\* ------------------------------------------- watch session: data and helpers
\* The updates of the watch-session specification carry a video id; `reset`
\* says whether the update changes the cpn or the video id (should_reset_watch),
\* t is time_start, the clock value at which the update was received.
SessUpdates(t) == [state : StateValues, reset : BOOLEAN, t : {t}]

\* should_reset_watch of process_playstatus (lines 162-167).
NeverResetWatch(update) == update.reset /\ ~update.reset
ShouldResetWatch(update) == update.reset

\* last_emit = self.last_watch_emit_at or self.playback_started_at
LastEmit ==
    IF last_watch_emit_at \in {-1, 0} THEN playback_started_at ELSE last_watch_emit_at

\* A flush that writes whatever the delta is.
FlushWritesAnyDelta(now) == playback_started_at # -1

\* _flush_watch_time(now) up to its await: whether record_watch_time is called.
FlushWrites(now) == playback_started_at # -1 /\ now - LastEmit > 0

\* _flush_watch_time after record_watch_time returned (line 218).
WriteLanded(w) ==
    /\ watchBalance' = watchBalance + w.delta
    /\ last_watch_emit_at' = w.now

\* The length of the session that _finalize_watch_session(now) closes.
SessionLength(now) ==
    IF playback_started_at = -1 THEN 0 ELSE now - playback_started_at

\* _finalize_watch_session after its flush (lines 222-223); `written` is what
\* that flush wrote.
CloseSession(now, written) ==
    /\ playback_started_at' = -1
    /\ last_watch_emit_at' = -1
    /\ watchBalance' = watchBalance + written - SessionLength(now)

HeartbeatAlive == hbPc \in {"sleep", "write", "seen"}

watchFields == << playback_started_at, last_watch_emit_at, watchBalance >>
hbVars == << hbPc, hbWake, hbPend >>
shutVars == << cancelled, shutPc, shutPend, connected >>
sessFrame == << ctlVars, recVars, skipVars, extVars >>

\* ------------------------------------------------- watch session: ingress
\* __call__ while the lounge session is connected: one more update.
SessReceive ==
    /\ connected
    /\ nSessReceived < MaxSessUpdates
    /\ \E update \in SessUpdates(clock) :
          sQueue' = EnqueueState(sQueue, update)
    /\ nSessReceived' = nSessReceived + 1
    /\ UNCHANGED << clock, sPc, sCur, sPend, lastState, skipPending >>
    /\ UNCHANGED << watchFields, hbVars, shutVars >>
    /\ UNCHANGED sessFrame

\* time.monotonic() advances by one unit (2.5 s).
SessTick ==
    /\ clock < MaxClock
    /\ clock' = clock + 1
    /\ UNCHANGED << sQueue, nSessReceived, sPc, sCur, sPend, lastState, skipPending >>
    /\ UNCHANGED << watchFields, hbVars, shutVars >>
    /\ UNCHANGED sessFrame

\* --------------------------------------------- watch session: the processor
\* _state_processor takes the queued update; process_playstatus suspends in
\* stats.mark_device_seen.
SessGet ==
    /\ sPc = "get"
    /\ sQueue # << >>
    /\ sCur' = QueueGet(sQueue).item
    /\ sQueue' = QueueGet(sQueue).rest
    /\ lastState' = QueueGet(sQueue).item.state
    /\ sPc' = "seen"
    /\ UNCHANGED << clock, nSessReceived, sPend, skipPending >>
    /\ UNCHANGED << watchFields, hbVars, shutVars >>
    /\ UNCHANGED sessFrame

\* mark_device_seen returned.  An update that changes the cpn or the video id
\* finalizes the watch session (line 168): its flush awaits the write, or
\* there is nothing to write and the session is closed at once.  Then
\* record_video_started / get_segments are awaited.
SessSeen ==
    /\ sPc = "seen"
    /\ IF ShouldResetWatch(sCur)
       THEN IF FlushWrites(sCur.t)
            THEN /\ sPend' = [delta |-> sCur.t - LastEmit, now |-> sCur.t]
                 /\ sPc' = "resetw"
                 /\ UNCHANGED watchFields
            ELSE /\ CloseSession(sCur.t, 0)
                 /\ sPc' = "fetch"
                 /\ UNCHANGED sPend
       ELSE /\ sPc' = "fetch"
            /\ UNCHANGED << sPend, watchFields >>
    /\ UNCHANGED << clock, sQueue, nSessReceived, sCur, lastState, skipPending >>
    /\ UNCHANGED << hbVars, shutVars >>
    /\ UNCHANGED sessFrame

\* The write of the finalize at line 168 returned: lines 218, 222-223.
SessResetWritten ==
    /\ sPc = "resetw"
    /\ CloseSession(sPend.now, sPend.delta)
    /\ sPend' = NoWrite
    /\ sPc' = "fetch"
    /\ UNCHANGED << clock, sQueue, nSessReceived, sCur, lastState, skipPending >>
    /\ UNCHANGED << hbVars, shutVars >>
    /\ UNCHANGED sessFrame

\* process_playstatus returns (lines 184-190): a playing update with ranges
\* schedules a skip, a playing update without ranges leaves the slot alone,
\* any other update cancels the scheduled skip.  _state_processor then leaves
\* its loop if the controller was cancelled.
SessEndUpdate ==
    /\ IF sCur.state = PLAYING
       THEN \E has_segments \in BOOLEAN :
               skipPending' = (has_segments \/ skipPending)
       ELSE skipPending' = FALSE
    /\ sPc' = IF cancelled THEN "done" ELSE "get"

\* _ensure_watch_heartbeat: create the heartbeat task unless one is running.
\* A task created after cancel() set `cancelled` leaves its loop at once.
EnsureWatchHeartbeat ==
    IF HeartbeatAlive
    THEN UNCHANGED hbVars
    ELSE /\ hbPc' = IF cancelled THEN "done" ELSE "sleep"
         /\ hbWake' = clock + WATCH_FLUSH_INTERVAL
         /\ hbPend' = NoWrite

\* get_segments returned: _record_watch_time (lines 192-208).
SessFetched ==
    /\ sPc = "fetch"
    /\ IF sCur.state = PLAYING
       THEN IF playback_started_at = -1
            THEN /\ playback_started_at' = sCur.t
                 /\ last_watch_emit_at' = sCur.t
                 /\ EnsureWatchHeartbeat
                 /\ SessEndUpdate
                 /\ UNCHANGED << sPend, watchBalance >>
            ELSE IF sCur.t - LastEmit >= WATCH_FLUSH_INTERVAL
                 THEN /\ sPend' = [delta |-> sCur.t - LastEmit, now |-> sCur.t]
                      /\ sPc' = "flushw"
                      /\ UNCHANGED << watchFields, hbVars, skipPending >>
                 ELSE /\ SessEndUpdate
                      /\ UNCHANGED << sPend, watchFields, hbVars >>
       ELSE IF FlushWrites(sCur.t)
            THEN /\ sPend' = [delta |-> sCur.t - LastEmit, now |-> sCur.t]
                 /\ sPc' = "finalw"
                 /\ UNCHANGED << watchFields, hbVars, skipPending >>
            ELSE /\ CloseSession(sCur.t, 0)
                 /\ SessEndUpdate
                 /\ UNCHANGED << sPend, hbVars >>
    /\ UNCHANGED << clock, sQueue, nSessReceived, sCur, lastState >>
    /\ UNCHANGED shutVars
    /\ UNCHANGED sessFrame

\* The write of the update-driven flush returned (lines 204, 218).
SessFlushWritten ==
    /\ sPc = "flushw"
    /\ WriteLanded(sPend)
    /\ sPend' = NoWrite
    /\ SessEndUpdate
    /\ UNCHANGED << clock, sQueue, nSessReceived, sCur, lastState,
                    playback_started_at >>
    /\ UNCHANGED << hbVars, shutVars >>
    /\ UNCHANGED sessFrame

\* The write of the closing flush returned (lines 206, 218, 222-223).
SessFinalWritten ==
    /\ sPc = "finalw"
    /\ CloseSession(sPend.now, sPend.delta)
    /\ sPend' = NoWrite
    /\ SessEndUpdate
    /\ UNCHANGED << clock, sQueue, nSessReceived, sCur, lastState >>
    /\ UNCHANGED << hbVars, shutVars >>
    /\ UNCHANGED sessFrame

\* An awaited call of process_playstatus raised (a stats write or the segment
\* fetch): _state_processor logs it and goes on (lines 151-152).
SessFail ==
    /\ sPc \in {"seen", "resetw", "fetch", "flushw", "finalw"}
    /\ sPend' = NoWrite
    /\ sPc' = IF cancelled THEN "done" ELSE "get"
    /\ UNCHANGED << clock, sQueue, nSessReceived, sCur, lastState, skipPending >>
    /\ UNCHANGED << watchFields, hbVars, shutVars >>
    /\ UNCHANGED sessFrame

\* The scheduled skip runs to its end: the seek is issued and the slot cleared.
SessSkipFires ==
    /\ skipPending
    /\ skipPending' = FALSE
    /\ UNCHANGED << clock, sQueue, nSessReceived, sPc, sCur, sPend, lastState >>
    /\ UNCHANGED << watchFields, hbVars, shutVars >>
    /\ UNCHANGED sessFrame

\* ------------------------------------------- watch session: the heartbeat
\* A heartbeat that ends after its first tick.
HeartbeatStops ==
    /\ hbPc' = "done"
    /\ hbPend' = NoWrite
    /\ UNCHANGED hbWake

\* The top of _watch_heartbeat_loop: leave if cancelled, else sleep again.
HeartbeatLoops ==
    /\ hbPc' = IF cancelled THEN "done" ELSE "sleep"
    /\ hbWake' = clock + WATCH_FLUSH_INTERVAL
    /\ hbPend' = NoWrite

\* The sleep is over (lines 233-238): with no session open the loop goes on;
\* otherwise _flush_watch_time(now) awaits the write, or has nothing to write
\* and mark_device_seen is awaited.
HeartbeatWakes ==
    /\ hbPc = "sleep"
    /\ clock >= hbWake
    /\ IF playback_started_at = -1
       THEN HeartbeatLoops
       ELSE IF FlushWrites(clock)
            THEN /\ hbPend' = [delta |-> clock - LastEmit, now |-> clock]
                 /\ hbPc' = "write"
                 /\ UNCHANGED hbWake
            ELSE /\ hbPc' = "seen"
                 /\ UNCHANGED << hbWake, hbPend >>
    /\ UNCHANGED << clock, sQueue, nSessReceived, sPc, sCur, sPend, lastState,
                    skipPending >>
    /\ UNCHANGED << watchFields, shutVars >>
    /\ UNCHANGED sessFrame

\* The heartbeat's write returned (line 218); mark_device_seen is awaited.
HeartbeatWritten ==
    /\ hbPc = "write"
    /\ WriteLanded(hbPend)
    /\ hbPend' = NoWrite
    /\ hbPc' = "seen"
    /\ UNCHANGED << clock, sQueue, nSessReceived, sPc, sCur, sPend, lastState,
                    skipPending, hbWake, playback_started_at >>
    /\ UNCHANGED shutVars
    /\ UNCHANGED sessFrame

\* mark_device_seen returned, or an awaited call of the tick raised and was
\* logged (lines 242-243).
HeartbeatTickEnds ==
    /\ hbPc \in {"write", "seen"}
    /\ HeartbeatLoops
    /\ UNCHANGED << clock, sQueue, nSessReceived, sPc, sCur, sPend, lastState,
                    skipPending >>
    /\ UNCHANGED << watchFields, shutVars >>
    /\ UNCHANGED sessFrame

\* --------------------------------------------- DeviceListener.cancel()
\* cancel() starts (lines 386-387): cancelled is set and the watch session is
\* finalized: its flush awaits the write, or the session is closed at once
\* and disconnect is awaited.
ShutBegin ==
    /\ shutPc = "run"
    /\ cancelled' = TRUE
    /\ IF FlushWrites(clock)
       THEN /\ shutPend' = [delta |-> clock - LastEmit, now |-> clock]
            /\ shutPc' = "flushw"
            /\ UNCHANGED watchFields
       ELSE /\ CloseSession(clock, 0)
            /\ shutPc' = "disconnect"
            /\ UNCHANGED shutPend
    /\ UNCHANGED << clock, sQueue, nSessReceived, sPc, sCur, sPend, lastState,
                    skipPending, connected >>
    /\ UNCHANGED hbVars
    /\ UNCHANGED sessFrame

\* The write of cancel()'s flush returned: the session is closed (lines 218,
\* 222-223) and disconnect is awaited (line 388).
ShutFlushed ==
    /\ shutPc = "flushw"
    /\ CloseSession(shutPend.now, shutPend.delta)
    /\ shutPend' = NoWrite
    /\ shutPc' = "disconnect"
    /\ UNCHANGED << clock, sQueue, nSessReceived, sPc, sCur, sPend, lastState,
                    skipPending, cancelled, connected >>
    /\ UNCHANGED hbVars
    /\ UNCHANGED sessFrame

\* The flush or the disconnect raised: cancel() ends there, with `cancelled`
\* set and no task cancelled.
ShutFails ==
    /\ shutPc \in {"flushw", "disconnect"}
    /\ shutPend' = NoWrite
    /\ shutPc' = "failed"
    /\ UNCHANGED << clock, sQueue, nSessReceived, sPc, sCur, sPend, lastState,
                    skipPending, cancelled, connected >>
    /\ UNCHANGED << watchFields, hbVars >>
    /\ UNCHANGED sessFrame

\* disconnect returned (line 388); the processor task is cancelled (lines
\* 389-390): it ends at the await it is suspended in; a write it had handed
\* to a thread still lands.  _cancel_skip_task comes next (line 391).
ShutDisconnected ==
    /\ shutPc = "disconnect"
    /\ connected' = FALSE
    /\ sPc' = "done"
    /\ sPend' = NoWrite
    /\ watchBalance' = watchBalance + sPend.delta
    /\ shutPc' = "cancelskip"
    /\ UNCHANGED << clock, sQueue, nSessReceived, sCur, lastState, skipPending,
                    cancelled, shutPend, playback_started_at, last_watch_emit_at >>
    /\ UNCHANGED hbVars
    /\ UNCHANGED sessFrame

\* _cancel_skip_task returned (line 391); the heartbeat task is cancelled
\* (lines 392-393) and ends, a write it had handed to a thread still lands;
\* the gather of line 399 is awaited.
ShutSkipCancelled ==
    /\ shutPc = "cancelskip"
    /\ skipPending' = FALSE
    /\ hbPc' = IF HeartbeatAlive THEN "done" ELSE hbPc
    /\ hbPend' = NoWrite
    /\ watchBalance' = watchBalance + hbPend.delta
    /\ shutPc' = "join"
    /\ UNCHANGED << clock, sQueue, nSessReceived, sPc, sCur, sPend, lastState,
                    hbWake, cancelled, shutPend, connected, playback_started_at,
                    last_watch_emit_at >>
    /\ UNCHANGED sessFrame

\* The gather returned: cancel() is complete (lines 399-412).
ShutJoined ==
    /\ shutPc = "join"
    /\ shutPc' = "done"
    /\ UNCHANGED << clock, sQueue, nSessReceived, sPc, sCur, sPend, lastState,
                    skipPending, cancelled, shutPend, connected >>
    /\ UNCHANGED << watchFields, hbVars >>
    /\ UNCHANGED sessFrame

\* ----------------------------------------- watch session: specification
\* A controller that was just constructed and connected.
SessInit ==
    /\ SessFresh
    /\ clock = 1
    /\ sPc = "get"
    /\ shutPc = "run"
    /\ connected = TRUE

SessNext ==
    \/ SessReceive
    \/ SessTick
    \/ SessGet
    \/ SessSeen
    \/ SessResetWritten
    \/ SessFetched
    \/ SessFlushWritten
    \/ SessFinalWritten
    \/ SessFail
    \/ SessSkipFires
    \/ HeartbeatWakes
    \/ HeartbeatWritten
    \/ HeartbeatTickEnds
    \/ ShutBegin
    \/ ShutFlushed
    \/ ShutFails
    \/ ShutDisconnected
    \/ ShutSkipCancelled
    \/ ShutJoined

InitSess == CtlInit /\ RecIdle /\ SessInit /\ SkipIdle /\ ExtIdle

SpecSess == InitSess /\ [][SessNext]_vars

\* The same under the event loop's scheduling of the heartbeat: a sleep that
\* is over ends.
FairSpecSess == SpecSess /\ WF_vars(HeartbeatWakes)

\* ------------------------------------------------ one scheduled skip: data
\* Category tags of ranges.
Categories == {"sponsor", "intro"}

\* The ranges get_segments can return (centiseconds): a range ahead, a
\* malformed range (start > end), a range shorter than SEGMENT_EPSILON, a
\* range of no length, and a later range with two UUIDs and two categories.
\* Every range has a non-empty UUID list.
RangePool ==
    { [start |-> 500, end |-> 1000, UUID |-> {"u1"}, categories |-> << "sponsor" >>],
      [start |-> 500, end |-> 400, UUID |-> {"u2"}, categories |-> << "intro" >>],
      [start |-> 600, end |-> 620, UUID |-> {"u2"}, categories |-> << >>],
      [start |-> 1500, end |-> 1500, UUID |-> {"u1"}, categories |-> << "intro" >>],
      [start |-> 2000, end |-> 2500, UUID |-> {"u1", "u2"},
       categories |-> << "sponsor", "intro" >>] }

\* Lists of at most two ranges in ascending order of start.
RangeLists ==
    { << >> } \cup { << r >> : r \in RangePool }
              \cup { pair \in RangePool \X RangePool : pair[1].start <= pair[2].start }

\* currentTime of the playing update: before every range, inside a range,
\* less than SEGMENT_EPSILON before the end of a range, between ranges, after
\* every range.
SkipPositions == {0, 600, 980, 1100, 3000}
\* time.monotonic() - time_start when _wait_and_skip first runs.
SkipElapsed == {0, 20, 700}
\* lounge_controller.playback_speed
SkipSpeeds == {1, 2}
\* device.offset in centiseconds (the management surface stores offset >= 0).
SkipOffsets == {0, 30}

NoPlan == [start |-> 0, end |-> 0, UUID |-> {}, categories |-> << >>]

\* skip_task_video and skip_task_segment_start of a skip scheduled earlier:
\* plan starts at, 0.04 s after and 0.05 s after a range start, and at a
\* position inside a range.
NoPrior == [video |-> None, start |-> -1]
PriorSkips == [video : Videos, start : {500, 504, 505, 600}]

\* The Stats Sink counters of one device.
NoStats ==
    [segments_skipped |-> 0, time_saved_seconds |-> 0,
     skip_category |-> [c \in Categories |-> 0],
     time_saved_category |-> [c \in Categories |-> 0]]

\* How often category c occurs in a category list.
Occurrences(categories, c) ==
    Cardinality({ i \in 1..Len(categories) : categories[i] = c })

\* time_to_next of _wait_and_skip (lines 364-369).  The inputs are chosen so
\* that the division by playback_speed is exact.
TimeToNextIgnoringOffset(start_next_segment, position, elapsed, speed, offset) ==
    LET raw == (start_next_segment - position - elapsed) \div speed
    IN  IF raw < 0 THEN 0 ELSE raw

TimeToNext(start_next_segment, position, elapsed, speed, offset) ==
    LET raw == ((start_next_segment - position - elapsed) \div speed) - offset
    IN  IF raw < 0 THEN 0 ELSE raw

\* saved_duration = max(segment_end - start_next_segment, 0) (line 370)
SavedDuration(segment_end, start_next_segment) ==
    IF segment_end - start_next_segment > 0
    THEN segment_end - start_next_segment ELSE 0

\* StatsRecorder.record_segment_skip (stats.py 52-71), all writes returned.
RecordOneSegment(stats, count, saved_seconds, categories) ==
    [segments_skipped |-> stats.segments_skipped + 1,
     time_saved_seconds |-> stats.time_saved_seconds + saved_seconds,
     skip_category |-> stats.skip_category,
     time_saved_category |-> stats.time_saved_category]

RecordSegmentSkip(stats, count, saved_seconds, categories) ==
    [segments_skipped |->
        stats.segments_skipped + (IF count > 0 THEN count ELSE 0),
     time_saved_seconds |->
        stats.time_saved_seconds + (IF saved_seconds > 0 THEN saved_seconds ELSE 0),
     skip_category |->
        [c \in Categories |-> stats.skip_category[c] + Occurrences(categories, c)],
     time_saved_category |->
        [c \in Categories |->
            stats.time_saved_category[c]
              + (IF saved_seconds > 0 /\ Len(categories) > 0
                 THEN Occurrences(categories, c) * (saved_seconds \div Len(categories))
                 ELSE 0)]]

\* record_segment_skip raised after its first increment.
RecordInterrupted(stats, count) ==
    [stats EXCEPT !.segments_skipped = @ + (IF count > 0 THEN count ELSE 0)]

skipFrame == << ctlVars, recVars, sessVars, extVars >>

\* ---------------------------------------------- one scheduled skip: actions
\* _cancel_skip_task for the skip scheduled before the update: its task is
\* cancelled and awaited.
PriorCancelled == IF kPriorPc = "pending" THEN "cancelled" ELSE kPriorPc

\* _schedule_skip for a playing update with ranges (lines 266-306).  Nothing
\* selected: the prior skip is cancelled.  Otherwise the plan is computed
\* (lines 272-276); under same_plan the prior skip stays as it is, else it is
\* cancelled, the plan is installed and the task created.
KSchedule ==
    /\ kPc = "schedule"
    /\ LET i == _select_next_segment(kSegments, kPosition, kCompleted)
       IN  /\ kSel' = i
           /\ IF i = 0
              THEN /\ kPc' = "none"
                   /\ kPriorPc' = PriorCancelled
                   /\ kSlot' = FALSE
                   /\ UNCHANGED kPlan
              ELSE /\ kPlan' = [start |-> PlanStart(kSegments[i], kPosition),
                                end |-> kSegments[i].end,
                                UUID |-> kSegments[i].UUID,
                                categories |-> kSegments[i].categories]
                   /\ IF SamePlanFor(kPriorPc # "none", kPriorPc = "pending",
                                     kPrior.video, kPrior.start,
                                     kVideo, PlanStart(kSegments[i], kPosition))
                      THEN /\ kPc' = "kept"
                           /\ UNCHANGED << kPriorPc, kSlot >>
                      ELSE /\ kPc' = "new"
                           /\ kPriorPc' = PriorCancelled
                           /\ kSlot' = TRUE
    /\ UNCHANGED << kVideo, kPrior, kSegments, kCompleted, kPosition, kElapsed,
                    kSpeed, kOffset, kWait, kFiredAt, kSeekTo, kSeek, kMark,
                    kStats, kCounted >>
    /\ UNCHANGED skipFrame

\* skip() issues seek_to(position) and mark_viewed_segments(uuids) as two
\* tasks and awaits their gather (lines 254-258).
KIssueCalls(wait) ==
    /\ kFiredAt' = kElapsed + wait
    /\ kSeekTo' = kPlan.end
    /\ kSeek' = "pending"
    /\ kMark' = "pending"
    /\ kPc' = "calls"

\* _wait_and_skip runs (lines 363-377): the wait is computed; a positive wait
\* is slept for, otherwise the calls are issued at once.
KStart ==
    /\ kPc = "new"
    /\ kWait' = TimeToNext(kPlan.start, kPosition, kElapsed, kSpeed, kOffset)
    /\ IF kWait' > 0
       THEN /\ kPc' = "sleep"
            /\ UNCHANGED << kFiredAt, kSeekTo, kSeek, kMark >>
       ELSE KIssueCalls(0)
    /\ UNCHANGED << kVideo, kPrior, kPriorPc, kSegments, kCompleted, kPosition, kElapsed, kSpeed, kOffset,
                    kSel, kPlan, kSlot, kStats, kCounted >>
    /\ UNCHANGED skipFrame

\* asyncio.sleep(time_to) is over.
KWake ==
    /\ kPc = "sleep"
    /\ KIssueCalls(kWait)
    /\ UNCHANGED << kVideo, kPrior, kPriorPc, kSegments, kCompleted, kPosition, kElapsed, kSpeed, kOffset,
                    kSel, kPlan, kSlot, kWait, kStats, kCounted >>
    /\ UNCHANGED skipFrame

\* The finally block of _wait_and_skip (lines 380-383).
KFinally ==
    /\ kSlot' = FALSE
    /\ kPc' = "done"

\* seek_to returned; when mark_viewed_segments has returned too, the gather
\* is over and record_segment_skip is awaited (line 259).
KSeekReturns ==
    /\ kPc = "calls"
    /\ kSeek = "pending"
    /\ kSeek' = "ok"
    /\ kPc' = IF kMark = "ok" THEN "record" ELSE "calls"
    /\ UNCHANGED << kVideo, kPrior, kPriorPc, kSegments, kCompleted, kPosition, kElapsed, kSpeed, kOffset,
                    kSel, kPlan, kSlot, kWait, kFiredAt, kSeekTo, kMark, kStats,
                    kCounted >>
    /\ UNCHANGED skipFrame

\* mark_viewed_segments returned.
KMarkReturns ==
    /\ kPc = "calls"
    /\ kMark = "pending"
    /\ kMark' = "ok"
    /\ kPc' = IF kSeek = "ok" THEN "record" ELSE "calls"
    /\ UNCHANGED << kVideo, kPrior, kPriorPc, kSegments, kCompleted, kPosition, kElapsed, kSpeed, kOffset,
                    kSel, kPlan, kSlot, kWait, kFiredAt, kSeekTo, kSeek, kStats,
                    kCounted >>
    /\ UNCHANGED skipFrame

\* seek_to raised: the gather raises it at once, skip() and _wait_and_skip
\* end with it through the finally block; nothing is recorded.
KSeekFails ==
    /\ kPc = "calls"
    /\ kSeek = "pending"
    /\ kSeek' = "failed"
    /\ KFinally
    /\ UNCHANGED << kVideo, kPrior, kPriorPc, kSegments, kCompleted, kPosition, kElapsed, kSpeed, kOffset,
                    kSel, kPlan, kWait, kFiredAt, kSeekTo, kMark, kStats, kCounted >>
    /\ UNCHANGED skipFrame

\* mark_viewed_segments raised: likewise.
KMarkFails ==
    /\ kPc = "calls"
    /\ kMark = "pending"
    /\ kMark' = "failed"
    /\ KFinally
    /\ UNCHANGED << kVideo, kPrior, kPriorPc, kSegments, kCompleted, kPosition, kElapsed, kSpeed, kOffset,
                    kSel, kPlan, kWait, kFiredAt, kSeekTo, kSeek, kStats, kCounted >>
    /\ UNCHANGED skipFrame

\* record_segment_skip returned (lines 259-264): the UUIDs are added to the
\* completed set (378-379) and the slot is cleared (380-383).
KRecorded ==
    /\ kPc = "record"
    /\ kStats' = RecordSegmentSkip(kStats, Cardinality(kPlan.UUID),
                                   SavedDuration(kPlan.end, kPlan.start),
                                   kPlan.categories)
    /\ kCompleted' = IF kPlan.UUID # {} THEN kCompleted \cup kPlan.UUID ELSE kCompleted
    /\ kCounted' = TRUE
    /\ KFinally
    /\ UNCHANGED << kVideo, kPrior, kPriorPc, kSegments, kPosition, kElapsed, kSpeed, kOffset,
                    kSel, kPlan, kWait, kFiredAt, kSeekTo, kSeek, kMark >>
    /\ UNCHANGED skipFrame

\* A write of record_segment_skip raised, before or after the first
\* increment landed: the task ends through its finally block.
KRecordFails ==
    /\ kPc = "record"
    /\ \E landed \in BOOLEAN :
          kStats' = IF landed
                    THEN RecordInterrupted(kStats, Cardinality(kPlan.UUID))
                    ELSE kStats
    /\ KFinally
    /\ UNCHANGED << kVideo, kPrior, kPriorPc, kSegments, kCompleted, kPosition, kElapsed, kSpeed, kOffset,
                    kSel, kPlan, kWait, kFiredAt, kSeekTo, kSeek, kMark, kCounted >>
    /\ UNCHANGED skipFrame

\* A later update is processed while the skip task runs and reaches
\* _cancel_skip_task (lines 308-321; from process_playstatus on a cpn or video
\* change or a state other than playing, from _schedule_skip lines 268-270
\* and 287): the task is cancelled at its await and awaited.  In the sleep
\* nothing has been issued; in the gather the two calls are cancelled with
\* it; in record_segment_skip the increment running in its thread lands and
\* the later ones are never called, or every increment has landed and
\* set_metric is cut short.  Lines 378-379 are not reached; the finally block
\* clears the slot.
KCancelledByUpdate ==
    /\ kPc \in {"sleep", "calls", "record"}
    /\ kPc' = "cancelled"
    /\ kSlot' = FALSE
    /\ kSeek' = IF kSeek = "pending" THEN "cancelled" ELSE kSeek
    /\ kMark' = IF kMark = "pending" THEN "cancelled" ELSE kMark
    /\ IF kPc = "record"
       THEN \E landed \in {"first", "all"} :
               kStats' = IF landed = "first"
                         THEN RecordInterrupted(kStats, Cardinality(kPlan.UUID))
                         ELSE RecordSegmentSkip(kStats, Cardinality(kPlan.UUID),
                                                SavedDuration(kPlan.end, kPlan.start),
                                                kPlan.categories)
       ELSE UNCHANGED kStats
    /\ UNCHANGED << kVideo, kPrior, kPriorPc, kSegments, kCompleted, kPosition, kElapsed, kSpeed, kOffset,
                    kSel, kPlan, kWait, kFiredAt, kSeekTo, kCounted >>
    /\ UNCHANGED skipFrame

\* ---------------------------------------- one scheduled skip: specification
\* A playing update with ranges reaches _schedule_skip; a skip scheduled by an
\* earlier update may be pending.
SkipInit ==
    /\ kPc = "schedule"
    /\ kVideo \in Videos
    /\ \/ kPrior = NoPrior /\ kPriorPc = "none"
       \/ kPrior \in PriorSkips /\ kPriorPc = "pending"
    /\ kSegments \in RangeLists
    /\ kCompleted \in SUBSET UUIDs
    /\ kPosition \in SkipPositions
    /\ kElapsed \in SkipElapsed
    /\ kSpeed \in SkipSpeeds
    /\ kOffset \in SkipOffsets
    /\ kSel = 0
    /\ kPlan = NoPlan
    /\ kSlot = (kPriorPc = "pending")
    /\ kWait = 0
    /\ kFiredAt = -1
    /\ kSeekTo = -1
    /\ kSeek = "none"
    /\ kMark = "none"
    /\ kStats = NoStats
    /\ kCounted = FALSE

SkipNext ==
    \/ KSchedule
    \/ KStart
    \/ KWake
    \/ KSeekReturns
    \/ KMarkReturns
    \/ KSeekFails
    \/ KMarkFails
    \/ KRecorded
    \/ KRecordFails
    \/ KCancelledByUpdate

InitSkip == CtlInit /\ RecIdle /\ SessIdle /\ SkipInit /\ ExtIdle

SpecSkip == InitSkip /\ [][SkipNext]_vars

\* ------------------------------------------------ supervisor: loop() and
\* refresh_auth_loop() of one DeviceListener, and stop_listener
\* The loop iteration has seen nothing yet; restarted records that loop() has
\* come back to its top at least once.
SeenNothing ==
    [linked |-> FALSE, available |-> FALSE, connected |-> FALSE, restarted |-> FALSE]

\* loop() at `while not lounge_controller.linked()` (line 85): the await it
\* runs to, with what the iteration has seen.
LoopAtLinkCheck(s) ==
    IF linked
    THEN [pc |-> "avail", seen |-> [s EXCEPT !.linked = TRUE]]
    ELSE [pc |-> "refresh", seen |-> s]

\* loop() at `while not self.cancelled` (line 84).
LoopAtTop ==
    IF supCancelled
    THEN [pc |-> "done", seen |-> SeenNothing]
    ELSE LoopAtLinkCheck([SeenNothing EXCEPT !.restarted = TRUE])

\* An exception that leaves loop() instead of being caught.
LoopLeaves(pc) == [pc |-> "done", seen |-> lSeen]

\* The except clauses of loop() for an exception other than CancelledError
\* raised by the call awaited at pc (lines 89-90, 75-79, 99-102, 107-110,
\* 118-119); is_available turns it into False.
LoopCatches(pc) ==
    CASE pc = "refresh" -> [pc |-> "refreshsleep", seen |-> lSeen]
      [] pc = "avail" ->
            [pc |-> IF supCancelled THEN "connect" ELSE "availsleep", seen |-> lSeen]
      [] pc = "connect" -> [pc |-> "connectsleep", seen |-> lSeen]
      [] pc = "reconnect" ->
            [pc |-> IF ~lConnected /\ ~supCancelled THEN "waitconn" ELSE "subscribe",
             seen |-> [lSeen EXCEPT !.connected = lConnected]]
      [] OTHER -> LoopAtTop

\* The awaits of loop() that are calls of the lounge controller, and its sleeps.
LoopCalls == {"refresh", "avail", "connect", "reconnect", "subscribe"}
LoopSleeps == {"refreshsleep", "availsleep", "connectsleep", "waitconn"}

\* The call the loop task awaits returns or raises, or its sleep is over, and
\* loop() runs to its next await (lines 84-113).  conn is what connected()
\* says after connect() returned.
LoopResumes ==
    /\ lPc \in LoopCalls \cup LoopSleeps
    /\ ~lCancelReq
    /\ \E ok \in BOOLEAN, conn \in BOOLEAN :
          LET nowConnected == IF lPc \in {"connect", "reconnect"} /\ ok
                              THEN conn ELSE lConnected
              afterConnect ==
                  [pc |-> IF ~nowConnected /\ ~supCancelled
                          THEN "waitconn" ELSE "subscribe",
                   seen |-> [lSeen EXCEPT !.connected = nowConnected]]
              next ==
                  CASE ~ok /\ lPc \in LoopCalls -> LoopCatches(lPc)
                    [] lPc = "refresh" -> LoopAtLinkCheck(lSeen)
                    [] lPc = "refreshsleep" -> LoopAtLinkCheck(lSeen)
                    [] lPc = "avail" ->
                          IF available \/ supCancelled
                          THEN [pc |-> "connect",
                                seen |-> [lSeen EXCEPT !.available = available]]
                          ELSE [pc |-> "availsleep", seen |-> lSeen]
                    [] lPc = "availsleep" -> [pc |-> "avail", seen |-> lSeen]
                    [] lPc = "connect" -> afterConnect
                    [] lPc = "connectsleep" -> LoopAtTop
                    [] lPc = "waitconn" -> [pc |-> "reconnect", seen |-> lSeen]
                    [] lPc = "reconnect" -> afterConnect
                    [] lPc = "subscribe" -> [pc |-> "subscribed", seen |-> lSeen]
          IN  /\ lPc' = next.pc
              /\ lSeen' = next.seen
              /\ lConnected' = nowConnected
    /\ UNCHANGED << lCancelReq, rPc, rCancelReq, supCancelled, linked, available,
                    stopPc >>
    /\ UNCHANGED supFrame

\* `await sub` ends (lines 114-119): the subscription completed or raised;
\* loop() goes back to its top.
LoopSubscriptionEnds ==
    /\ lPc = "subscribed"
    /\ ~lCancelReq
    /\ lPc' = LoopAtTop.pc
    /\ lSeen' = LoopAtTop.seen
    /\ UNCHANGED << lCancelReq, rPc, rCancelReq, supCancelled, linked, available,
                    lConnected, stopPc >>
    /\ UNCHANGED supFrame

\* The CancelledError of loop_task.cancel() is thrown into the loop task at
\* its await.  In a sleep, in subscribe_monitored and in `await sub` it leaves
\* loop(); in refresh_auth, is_available and connect it is caught by
\* `except BaseException` and loop() goes on.
LoopCancelDelivered ==
    /\ lCancelReq
    /\ lPc # "done"
    /\ lCancelReq' = FALSE
    /\ LET next == IF lPc \in {"refresh", "avail", "connect", "reconnect"}
                   THEN LoopCatches(lPc) ELSE LoopLeaves(lPc)
       IN  lPc' = next.pc /\ lSeen' = next.seen
    /\ UNCHANGED << rPc, rCancelReq, supCancelled, linked, available, lConnected,
                    stopPc >>
    /\ UNCHANGED supFrame

\* refresh_auth_loop (lines 67-73): the day's sleep is over and refresh_auth
\* is awaited, or refresh_auth returned or raised and the task sleeps again.
RefreshResumes ==
    /\ rPc \in {"sleep", "refresh"}
    /\ ~rCancelReq
    /\ rPc' = IF rPc = "sleep" THEN "refresh" ELSE "sleep"
    /\ UNCHANGED << lPc, lSeen, lCancelReq, rCancelReq, supCancelled, linked,
                    available, lConnected, stopPc >>
    /\ UNCHANGED supFrame

\* The CancelledError of refresh_task.cancel(): it ends the task in its sleep
\* and is caught by `except BaseException: pass` inside refresh_auth.
RefreshCancelDelivered ==
    /\ rCancelReq
    /\ rPc # "done"
    /\ rCancelReq' = FALSE
    /\ rPc' = IF rPc = "sleep" THEN "done" ELSE "sleep"
    /\ UNCHANGED << lPc, lSeen, lCancelReq, supCancelled, linked, available,
                    lConnected, stopPc >>
    /\ UNCHANGED supFrame

\* The device is linked or unlinked, becomes available or unavailable, or the
\* lounge session is lost.
DeviceChanges ==
    /\ \E l \in BOOLEAN, a \in BOOLEAN, c \in BOOLEAN :
          /\ << l, a, c >> # << linked, available, lConnected >>
          /\ c => lConnected
          /\ linked' = l
          /\ available' = a
          /\ lConnected' = c
    /\ UNCHANGED << lPc, lSeen, lCancelReq, rPc, rCancelReq, supCancelled, stopPc >>
    /\ UNCHANGED supFrame

\* stop_listener calls listener.cancel() (lines 419, 385-412): `cancelled` is
\* set, the lounge session is disconnected and its subscribe task cancelled,
\* which may end an `await sub` of loop() with CancelledError.
SupStopBegins ==
    /\ stopPc = "run"
    /\ stopPc' = "cancelled"
    /\ supCancelled' = TRUE
    /\ lConnected' = FALSE
    /\ \E ends \in BOOLEAN :
          IF lPc = "subscribed" /\ ends
          THEN lPc' = "done" /\ lSeen' = lSeen
          ELSE UNCHANGED << lPc, lSeen >>
    /\ UNCHANGED << lCancelReq, rPc, rCancelReq, linked, available >>
    /\ UNCHANGED supFrame

\* listener.cancel() returned: stop_listener cancels the loop task and the
\* refresh task (lines 420-422) and awaits their gather.
SupStopCancelsTasks ==
    /\ stopPc = "cancelled"
    /\ stopPc' = "join"
    /\ lCancelReq' = (lPc # "done")
    /\ rCancelReq' = (rPc # "done")
    /\ UNCHANGED << lPc, lSeen, rPc, supCancelled, linked, available, lConnected >>
    /\ UNCHANGED supFrame

\* Both tasks are done: the gather returns and stop_listener with it.
SupStopJoined ==
    /\ stopPc = "join"
    /\ lPc = "done"
    /\ rPc = "done"
    /\ stopPc' = "done"
    /\ UNCHANGED << lPc, lSeen, lCancelReq, rPc, rCancelReq, supCancelled, linked,
                    available, lConnected >>
    /\ UNCHANGED supFrame

\* start_listener created the two tasks (lines 577-578); loop() has run to its
\* first await.
SupInit ==
    /\ linked \in BOOLEAN
    /\ available \in BOOLEAN
    /\ lConnected = FALSE
    /\ supCancelled = FALSE
    /\ lPc = IF linked THEN "avail" ELSE "refresh"
    /\ lSeen = [SeenNothing EXCEPT !.linked = linked]
    /\ lCancelReq = FALSE
    /\ rPc = "sleep"
    /\ rCancelReq = FALSE
    /\ stopPc = "run"

SupNext ==
    \/ LoopResumes
    \/ LoopSubscriptionEnds
    \/ LoopCancelDelivered
    \/ RefreshResumes
    \/ RefreshCancelDelivered
    \/ DeviceChanges
    \/ SupStopBegins
    \/ SupStopCancelsTasks
    \/ SupStopJoined

InitSup ==
    /\ CtlInit /\ RecIdle /\ SessIdle /\ SkipIdle
    /\ SupInit /\ StatIdle /\ CntIdle /\ PrefIdle /\ CfgIdle /\ MrgIdle /\ WhIdle

SpecSup == InitSup /\ [][SupNext]_vars

\* The same under the event loop's scheduling: every awaited call returns or
\* raises, every sleep ends, a requested cancellation is delivered and
\* stop_listener runs on; how long a subscription lasts and what the device
\* does are left open.
FairSpecSup ==
    /\ SpecSup
    /\ WF_vars(LoopResumes)
    /\ WF_vars(LoopCancelDelivered)
    /\ WF_vars(RefreshResumes)
    /\ WF_vars(RefreshCancelDelivered)
    /\ WF_vars(SupStopCancelsTasks)
    /\ WF_vars(SupStopJoined)

\* ------------------------------------------------ the stats table and its
\* writers (stats.py)
GLOBAL_DEVICE_ID == "__global__"
StatsDevices == {"d1", "d2"}
StatsRows == StatsDevices \cup {GLOBAL_DEVICE_ID}
\* videos_watched is written by increment, last_seen by set_metric.
AdditiveMetrics == {"videos_watched"}
StatsMetrics == AdditiveMetrics \cup {"last_seen"}
StatsWriters == {1, 2}
StatsAmounts == {1, 2}
MaxStatValue == 3

NoStatement == [pc |-> "idle", device_id |-> None, metric |-> None, amount |-> 0]

\* One statement of _increment or _set on a row (lines 20-29, 73-80): the
\* upsert adds to the value of an additive metric and replaces any other.
Upsert(tbl, row, metric, amount) ==
    [tbl EXCEPT ![row][metric] =
        IF metric \in AdditiveMetrics THEN @ + amount ELSE amount]

\* What a connection that autocommitted every statement would leave behind.
ClosedWithStatementsKept(tbl, pend) == pend

\* closing(conn) without conn.commit(): the open transaction is rolled back
\* and the table is what it was.
ClosedWithoutCommit(tbl, pend) == tbl

\* increment or set_metric is called for a device (lines 39-42, 90-91): a
\* worker thread opens its own connection.
StatsCall ==
    /\ \E w \in StatsWriters, d \in StatsDevices, m \in StatsMetrics, a \in StatsAmounts :
          /\ stConn[w].pc = "idle"
          /\ stTable[GLOBAL_DEVICE_ID][m] + a <= MaxStatValue
          /\ stConn' = [stConn EXCEPT ![w] =
                [pc |-> "first", device_id |-> d, metric |-> m, amount |-> a]]
    /\ UNCHANGED << stTable, stPending, stLock >>
    /\ UNCHANGED statFrame

\* The writer executes its next statement (lines 34-36, 85-87).  The first
\* one begins the transaction and takes the database's write lock; the second
\* one is for the __global__ row when the device is not __global__.
StatsStatement ==
    /\ \E w \in StatsWriters :
          LET c == stConn[w] IN
          \/ /\ c.pc = "first"
             /\ stLock = 0
             /\ stLock' = w
             /\ stPending' = Upsert(stTable, c.device_id, c.metric, c.amount)
             /\ stConn' = [stConn EXCEPT ![w].pc =
                   IF c.device_id # GLOBAL_DEVICE_ID THEN "second" ELSE "commit"]
          \/ /\ c.pc = "second"
             /\ stLock = w
             /\ stPending' = Upsert(stPending, GLOBAL_DEVICE_ID, c.metric, c.amount)
             /\ stConn' = [stConn EXCEPT ![w].pc = "commit"]
             /\ UNCHANGED stLock
    /\ UNCHANGED stTable
    /\ UNCHANGED statFrame

\* conn.commit() (lines 37, 88): both rows become the table's at once.
StatsCommit ==
    /\ \E w \in StatsWriters :
          /\ stConn[w].pc = "commit"
          /\ stLock = w
          /\ stTable' = stPending
          /\ stLock' = 0
          /\ stConn' = [stConn EXCEPT ![w] = NoStatement]
    /\ UNCHANGED stPending
    /\ UNCHANGED statFrame

\* A statement or the commit raises: the database stayed locked by the other
\* writer, or the disk failed.  The connection is closed without a commit.
StatsFails ==
    /\ \E w \in StatsWriters :
          /\ stConn[w].pc # "idle"
          /\ stConn' = [stConn EXCEPT ![w] = NoStatement]
          /\ IF stLock = w
             THEN /\ stTable' = ClosedWithoutCommit(stTable, stPending)
                  /\ stLock' = 0
             ELSE UNCHANGED << stTable, stLock >>
    /\ UNCHANGED stPending
    /\ UNCHANGED statFrame

StatInit ==
    /\ stTable = [r \in StatsRows |-> [m \in StatsMetrics |-> 0]]
    /\ stPending = stTable
    /\ stLock = 0
    /\ stConn = [w \in StatsWriters |-> NoStatement]

StatNext ==
    \/ StatsCall
    \/ StatsStatement
    \/ StatsCommit
    \/ StatsFails

InitStats ==
    /\ CtlInit /\ RecIdle /\ SessIdle /\ SkipIdle
    /\ SupIdle /\ StatInit /\ CntIdle /\ PrefIdle /\ CfgIdle /\ MrgIdle /\ WhIdle

SpecStats == InitStats /\ [][StatNext]_vars

\* ------------------------------------------------ preference resolution
\* (device_overrides.py).  A JSON value is written as a token: "true" and
\* "false" are the booleans, "s:..." a string, "n:..." a number, None is null;
\* the members of a category list and the ids and names of channels are
\* strings written as they are.
ALLOWED_AUTOMATION_KEYS == {"skip_ads", "mute_ads", "skip_count_tracking", "auto_play"}

\* _normalize_bool: << b >> for a boolean b, << >> for None.
NormalizeBool(value) ==
    CASE value \in {"true", "s:1", "s:true", "s:yes", "s:on"} -> << TRUE >>
      [] value \in {"false", "s:0", "s:false", "s:no", "s:off"} -> << FALSE >>
      [] OTHER -> << >>

\* _normalize_automation: payload is the value of the "automation" key; the
\* result maps the allowed keys whose value is a boolean to that boolean.
NormalizeAutomation(payload) ==
    IF payload.tag # "dict"
    THEN << >>
    ELSE LET kept == { k \in DOMAIN payload.items :
                          k \in ALLOWED_AUTOMATION_KEYS
                          /\ NormalizeBool(payload.items[k]) # << >> }
         IN  [k \in kept |-> NormalizeBool(payload.items[k])[1]]

\* The loop of _normalize_skip_categories over the list (lines 48-57): None
\* and empty strings are passed over, a repeated value is taken once, a value
\* that is no category raises.
RECURSIVE SkipCategoryLoop(_, _)
SkipCategoryLoop(items, normalized) ==
    IF items = << >>
    THEN [raised |-> FALSE, tag |-> "list", items |-> normalized]
    ELSE LET raw == Head(items) IN
         IF raw = None \/ raw = ""
         THEN SkipCategoryLoop(Tail(items), normalized)
         ELSE IF raw \notin Categories
         THEN [raised |-> TRUE, tag |-> "absent", items |-> << >>]
         ELSE IF \E i \in DOMAIN normalized : normalized[i] = raw
         THEN SkipCategoryLoop(Tail(items), normalized)
         ELSE SkipCategoryLoop(Tail(items), Append(normalized, raw))

\* _normalize_skip_categories: None for a missing or null value, ValueError
\* for one that is no list.
NormalizeSkipCategories(payload) ==
    CASE payload.tag \in {"absent", "null"} ->
            [raised |-> FALSE, tag |-> "absent", items |-> << >>]
      [] payload.tag = "list" -> SkipCategoryLoop(payload.items, << >>)
      [] OTHER -> [raised |-> TRUE, tag |-> "absent", items |-> << >>]

\* The loop of _normalize_channel_whitelist (lines 90-98) with
\* _normalize_channel_entry for entries that are objects: an entry without id
\* is passed over, a missing name becomes the id, a repeated id is taken once.
RECURSIVE ChannelLoop(_, _)
ChannelLoop(items, normalized) ==
    IF items = << >>
    THEN [raised |-> FALSE, tag |-> "list", items |-> normalized]
    ELSE LET raw == Head(items)
             entry == [id |-> raw.id,
                       name |-> IF raw.name = None THEN raw.id ELSE raw.name]
         IN  IF raw.id = None \/ (\E i \in DOMAIN normalized : normalized[i].id = raw.id)
             THEN ChannelLoop(Tail(items), normalized)
             ELSE ChannelLoop(Tail(items), Append(normalized, entry))

NormalizeChannelWhitelist(payload) ==
    CASE payload.tag \in {"absent", "null"} ->
            [raised |-> FALSE, tag |-> "absent", items |-> << >>]
      [] payload.tag = "list" -> ChannelLoop(payload.items, << >>)
      [] OTHER -> [raised |-> TRUE, tag |-> "absent", items |-> << >>]

\* The overrides dict {}.
EmptyOverrides ==
    [raised |-> FALSE,
     automation |-> << >>,
     skip_categories |-> [tag |-> "absent", items |-> << >>],
     channel_whitelist |-> [tag |-> "absent", items |-> << >>]]

\* A normalization that keeps the skip_categories key only for a list with
\* members.
NormalizeOverridesDroppingEmpty(payload) ==
    LET sc == NormalizeSkipCategories(payload.skip_categories)
        cw == NormalizeChannelWhitelist(payload.channel_whitelist)
    IN  [raised |-> sc.raised \/ cw.raised,
         automation |-> NormalizeAutomation(payload.automation),
         skip_categories |->
            IF sc.items = << >> THEN [tag |-> "absent", items |-> << >>]
            ELSE [tag |-> sc.tag, items |-> sc.items],
         channel_whitelist |-> [tag |-> cw.tag, items |-> cw.items]]

\* normalize_overrides: of a payload that is no object {}; otherwise the
\* three keys, each kept when its normalization is not empty (automation) or
\* not None (the two lists); raised stands for the ValueError.
NormalizeOverrides(payload) ==
    LET sc == NormalizeSkipCategories(payload.skip_categories)
        cw == NormalizeChannelWhitelist(payload.channel_whitelist)
    IN  [raised |-> sc.raised \/ cw.raised,
         automation |-> NormalizeAutomation(payload.automation),
         skip_categories |-> [tag |-> sc.tag, items |-> sc.items],
         channel_whitelist |-> [tag |-> cw.tag, items |-> cw.items]]

\* sanitize_stored_overrides: {} for an empty column, for text that is not
\* JSON, for a JSON value that is no object and when the normalization raises.
SanitizeStoredOverrides(raw) ==
    IF raw.kind # "object"
    THEN EmptyOverrides
    ELSE IF NormalizeOverrides(raw).raised
    THEN EmptyOverrides
    ELSE NormalizeOverrides(raw)

\* A resolution that takes every field from the configuration.
ResolveIgnoringOverrides(config, overrides) ==
    [join_name |-> config.join_name,
     apikey |-> config.apikey,
     skip_categories |-> config.skip_categories,
     channel_whitelist |-> config.channel_whitelist,
     skip_count_tracking |-> config.skip_count_tracking,
     mute_ads |-> config.mute_ads,
     skip_ads |-> config.skip_ads,
     auto_play |-> config.auto_play,
     minimum_skip_length |-> config.minimum_skip_length]

\* resolve_preferences.
ResolvePreferences(config, overrides) ==
    LET automation == overrides.automation
        flag(k) == IF k \in DOMAIN automation THEN automation[k] ELSE config[k]
    IN  [join_name |-> config.join_name,
         apikey |-> config.apikey,
         skip_categories |->
            IF overrides.skip_categories.tag = "list"
            THEN overrides.skip_categories.items ELSE config.skip_categories,
         channel_whitelist |->
            IF overrides.channel_whitelist.tag = "list"
            THEN overrides.channel_whitelist.items ELSE config.channel_whitelist,
         skip_count_tracking |-> flag("skip_count_tracking"),
         mute_ads |-> flag("mute_ads"),
         skip_ads |-> flag("skip_ads"),
         auto_play |-> flag("auto_play"),
         minimum_skip_length |-> config.minimum_skip_length]

\* The configurations and the stored overrides tried.
GlobalConfigs ==
    [join_name : {"SponsorBlockTV Web"},
     apikey : {"key"},
     skip_categories : {<< "sponsor" >>, << "intro", "sponsor" >>},
     channel_whitelist : {<< >>, << [id |-> "ch1", name |-> "One"] >>},
     skip_count_tracking : BOOLEAN,
     mute_ads : BOOLEAN,
     skip_ads : BOOLEAN,
     auto_play : BOOLEAN,
     minimum_skip_length : {1},
     use_proxy : BOOLEAN]

RawAutomations ==
    {[tag |-> "absent", items |-> << >>],
     [tag |-> "null", items |-> << >>],
     [tag |-> "dict", items |-> << >>],
     [tag |-> "dict", items |-> [k \in {"skip_ads"} |-> "true"]],
     [tag |-> "dict", items |-> [k \in {"skip_ads", "mute_ads"} |->
                                    IF k = "skip_ads" THEN "false" ELSE "s:yes"]],
     [tag |-> "dict", items |-> [k \in {"auto_play", "skip_count_tracking"} |-> "false"]],
     [tag |-> "dict", items |-> [k \in {"auto_play", "volume"} |->
                                    IF k = "auto_play" THEN "n:1" ELSE "true"]],
     [tag |-> "scalar", items |-> << >>]}

RawSkipCategories ==
    {[tag |-> "absent", items |-> << >>],
     [tag |-> "null", items |-> << >>],
     [tag |-> "list", items |-> << >>],
     [tag |-> "list", items |-> << "intro" >>],
     [tag |-> "list", items |-> << "sponsor", "", "intro", "sponsor" >>],
     [tag |-> "list", items |-> << None >>],
     [tag |-> "list", items |-> << "sponsor", "bogus" >>],
     [tag |-> "scalar", items |-> << >>]}

RawChannelWhitelists ==
    {[tag |-> "absent", items |-> << >>],
     [tag |-> "null", items |-> << >>],
     [tag |-> "list", items |-> << >>],
     [tag |-> "list", items |-> << [id |-> "ch2", name |-> None],
                                   [id |-> None, name |-> "Nobody"],
                                   [id |-> "ch2", name |-> "Two"] >>],
     [tag |-> "scalar", items |-> << >>]}

NoRawKeys ==
    [automation |-> [tag |-> "absent", items |-> << >>],
     skip_categories |-> [tag |-> "absent", items |-> << >>],
     channel_whitelist |-> [tag |-> "absent", items |-> << >>]]

\* The overrides column of a device row: empty, text that is not JSON, JSON
\* that is no object, or an object.
RawOverrides ==
    { [kind |-> k, automation |-> NoRawKeys.automation,
       skip_categories |-> NoRawKeys.skip_categories,
       channel_whitelist |-> NoRawKeys.channel_whitelist] :
          k \in {"empty", "malformed", "notobject"} }
    \cup [kind : {"object"}, automation : RawAutomations,
          skip_categories : RawSkipCategories,
          channel_whitelist : RawChannelWhitelists]

\* _load_device_snapshots reads the device row (lines 484-489): the stored
\* overrides are sanitized into the snapshot.
PrefLoadSnapshot ==
    /\ pPc = "stored"
    /\ pOverrides' = SanitizeStoredOverrides(pRaw)
    /\ pPc' = "loaded"
    /\ UNCHANGED << pConfig, pRaw, pPrefs >>
    /\ UNCHANGED prefFrame

\* start_listener resolves the preferences of the new supervisor (line 573).
PrefStartListener ==
    /\ pPc = "loaded"
    /\ pPrefs' = ResolvePreferences(pConfig, pOverrides)
    /\ pPc' = "started"
    /\ UNCHANGED << pConfig, pRaw, pOverrides >>
    /\ UNCHANGED prefFrame

PrefInit ==
    /\ pConfig \in GlobalConfigs
    /\ pRaw \in RawOverrides
    /\ pOverrides = EmptyOverrides
    /\ pPrefs = << >>
    /\ pPc = "stored"

PrefNext ==
    \/ PrefLoadSnapshot
    \/ PrefStartListener

InitPrefs ==
    /\ CtlInit /\ RecIdle /\ SessIdle /\ SkipIdle
    /\ SupIdle /\ StatIdle /\ CntIdle /\ PrefInit /\ CfgIdle /\ MrgIdle /\ WhIdle

SpecPrefs == InitPrefs /\ [][PrefNext]_vars

\* ------------------------------------------------ the configuration store,
\* the management API that edits it and the service that reads it
\* The settings the API switches between.
StoreConfigs ==
    { g \in GlobalConfigs :
         /\ g.skip_count_tracking
         /\ g.auto_play
         /\ ~g.mute_ads
         /\ g.channel_whitelist = << >> }

DeviceNames == {"tv", "den"}
NoRow == [present |-> FALSE, name |-> None]
DeviceRows == {NoRow} \cup [present : {TRUE}, name : DeviceNames]

NoSupervisor ==
    [running |-> FALSE, name |-> None, prefs |-> << >>, trust_env |-> FALSE,
     store |-> << >>, afterEdit |-> FALSE]

\* start_listener (lines 572-583): the supervisor gets the preferences
\* resolved from the service's Config object and the service's web_session.
\* store and afterEdit record the settings stored at that moment and whether
\* the API had changed them since the service started.
StartedListener(row) ==
    [running |-> TRUE,
     name |-> row.name,
     prefs |-> ResolvePreferences(cService.config, EmptyOverrides),
     trust_env |-> cService.trust_env,
     store |-> cStore,
     afterEdit |-> cEdited]

\* PATCH /config through mutate_config (api_app.py 551-567, 660-685): the
\* API's Config object is changed and saved to the store, and the API's own
\* client session is rebuilt when use_proxy differs from its trust_env.
CfgMutateConfig ==
    /\ \E g \in StoreConfigs :
          /\ g # cStore
          /\ cStore' = g
          /\ cApiTrust' = IF cApiTrust # g.use_proxy THEN g.use_proxy ELSE cApiTrust
    /\ cEdited' = TRUE
    /\ UNCHANGED << cService, cRow, cSup >>
    /\ UNCHANGED cfgFrame

\* The API adds, renames or removes the device (api_app.py 700-763).
CfgEditDevice ==
    /\ \E r \in DeviceRows :
          /\ r # cRow
          /\ cRow' = r
    /\ UNCHANGED << cStore, cService, cApiTrust, cSup, cEdited >>
    /\ UNCHANGED cfgFrame

\* One tick of monitor_devices for the device (lines 518-544): a supervisor
\* is started for a new row, replaced for a changed one and stopped for a
\* removed one.
CfgReconcile ==
    /\ \/ /\ cRow.present
          /\ ~cSup.running \/ cSup.name # cRow.name
          /\ cSup' = StartedListener(cRow)
       \/ /\ ~cRow.present
          /\ cSup.running
          /\ cSup' = NoSupervisor
    /\ UNCHANGED << cStore, cService, cApiTrust, cRow, cEdited >>
    /\ UNCHANGED cfgFrame

\* The two processes have started (main.py 635-644, 548-591; api_app.py
\* 517-527): each loaded its Config from the store and made its client
\* session with trust_env = use_proxy; the service started a supervisor for
\* the device of its Config.
CfgInit ==
    /\ cStore \in StoreConfigs
    /\ cService = [config |-> cStore, trust_env |-> cStore.use_proxy]
    /\ cApiTrust = cStore.use_proxy
    /\ cRow \in DeviceRows
    /\ cEdited = FALSE
    /\ cSup = IF cRow.present
              THEN [running |-> TRUE, name |-> cRow.name,
                    prefs |-> ResolvePreferences(cStore, EmptyOverrides),
                    trust_env |-> cStore.use_proxy,
                    store |-> cStore, afterEdit |-> FALSE]
              ELSE NoSupervisor

CfgNext ==
    \/ CfgMutateConfig
    \/ CfgEditDevice
    \/ CfgReconcile

InitCfg ==
    /\ CtlInit /\ RecIdle /\ SessIdle /\ SkipIdle
    /\ SupIdle /\ StatIdle /\ CntIdle /\ PrefIdle /\ CfgInit /\ MrgIdle /\ WhIdle

SpecCfg == InitCfg /\ [][CfgNext]_vars

\* ------------------------------------------------ merge_overrides
\* (device_overrides.py 118-162)
\* The loop over the payload's automation dict (lines 131-140): a key that is
\* not allowed or whose value is no boolean is passed over, a null value
\* removes the stored flag, a boolean replaces it.
MergeAutomation(existing_automation, items) ==
    LET allowed == DOMAIN items \cap ALLOWED_AUTOMATION_KEYS
        popped == { k \in allowed : items[k] = None }
        set == { k \in allowed : items[k] # None /\ NormalizeBool(items[k]) # << >> }
    IN  [k \in ((DOMAIN existing_automation) \ popped) \cup set |->
            IF k \in set THEN NormalizeBool(items[k])[1] ELSE existing_automation[k]]

\* A merge that starts from nothing instead of a copy of the stored overrides.
MergeOverridesFromNothing(existing, payload) ==
    IF payload.kind # "object"
    THEN EmptyOverrides
    ELSE NormalizeOverrides(payload)

\* merge_overrides: {} for a payload None; the stored overrides for a payload
\* that is no object; otherwise a copy of the stored overrides in which each
\* key the payload has is removed for null and replaced (the automation flags
\* one by one) for any other value.  raised stands for the ValueError of a list
\* normalization.
MergeOverrides(existing, payload) ==
    IF payload.kind = "null"
    THEN EmptyOverrides
    ELSE IF payload.kind # "object"
    THEN existing
    ELSE
    LET a == payload.automation
        merged_automation ==
            CASE a.tag = "null" -> << >>
              [] a.tag = "dict" -> MergeAutomation(existing.automation, a.items)
              [] OTHER -> existing.automation
        sc == NormalizeSkipCategories(payload.skip_categories)
        cw == NormalizeChannelWhitelist(payload.channel_whitelist)
        merged_list(given, normalized, stored) ==
            CASE given.tag = "absent" -> stored
              [] given.tag = "null" -> [tag |-> "absent", items |-> << >>]
              [] OTHER -> [tag |-> "list", items |-> normalized.items]
    IN  [raised |-> sc.raised \/ cw.raised,
         automation |-> merged_automation,
         skip_categories |->
            merged_list(payload.skip_categories, sc, existing.skip_categories),
         channel_whitelist |->
            merged_list(payload.channel_whitelist, cw, existing.channel_whitelist)]

\* The overrides a device can have stored, and the payloads tried: the
\* stored column values, null, and objects that give null for single flags.
ExistingOverrides == { SanitizeStoredOverrides(raw) : raw \in RawOverrides }

MergePayloads ==
    { raw \in RawOverrides : raw.kind # "empty" }
    \cup { [kind |-> "null", automation |-> NoRawKeys.automation,
            skip_categories |-> NoRawKeys.skip_categories,
            channel_whitelist |-> NoRawKeys.channel_whitelist] }
    \cup [kind : {"object"},
          automation : {[tag |-> "dict",
                         items |-> [k \in {"skip_ads", "auto_play"} |->
                                       IF k = "skip_ads" THEN None ELSE "true"]]},
          skip_categories : {NoRawKeys.skip_categories,
                             [tag |-> "null", items |-> << >>]},
          channel_whitelist : {NoRawKeys.channel_whitelist}]

\* merge_overrides is applied to the stored overrides and the payload.
MergeApply ==
    /\ mPc = "given"
    /\ mResult' = MergeOverrides(mExisting, mPayload)
    /\ mPc' = "merged"
    /\ UNCHANGED << mExisting, mPayload >>
    /\ UNCHANGED mrgFrame

MrgInit ==
    /\ mExisting \in ExistingOverrides
    /\ mPayload \in MergePayloads
    /\ mResult = << >>
    /\ mPc = "given"

InitMerge ==
    /\ CtlInit /\ RecIdle /\ SessIdle /\ SkipIdle
    /\ SupIdle /\ StatIdle /\ CntIdle /\ PrefIdle /\ CfgIdle /\ MrgInit /\ WhIdle

SpecMerge == InitMerge /\ [][MergeApply]_vars

\* ------------------------------------- heartbeat tasks of one controller
\* The heartbeat tasks a DeviceListener creates over its life, its reference
\* to the current one, and the two places that use the reference: the state
\* processor (through _record_watch_time) and cancel().
MaxHeartbeats == 3

NewHeartbeat == [pc |-> "created", cancelReq |-> FALSE]

\* A heartbeat is created at every call.
HeartbeatAlwaysNeeded(task, done) == TRUE

\* The test of _ensure_watch_heartbeat (line 226), negated: task is the
\* reference (0 for None), done is task.done().
HeartbeatNeeded(task, done) == ~(task # 0 /\ ~done)

WhAliveTasks == { i \in 1..Len(whTasks) : whTasks[i].pc # "done" }

\* _ensure_watch_heartbeat (lines 225-228).
WhEnsureWatchHeartbeat ==
    IF HeartbeatNeeded(watch_heartbeat_task,
                       watch_heartbeat_task # 0
                         /\ whTasks[watch_heartbeat_task].pc = "done")
    THEN /\ Len(whTasks) < MaxHeartbeats
         /\ whTasks' = Append(whTasks, NewHeartbeat)
         /\ watch_heartbeat_task' = Len(whTasks) + 1
    ELSE UNCHANGED << whTasks, watch_heartbeat_task >>

\* The top of the processor's loop (line 145).
WhProcessorLoops == whProc' = IF whCancelled THEN "done" ELSE "get"

\* state_queue.get() returned an update (line 146).
WhTakeUpdate ==
    /\ whProc = "get"
    /\ whProc' = "busy"
    /\ whUpdate' \in BOOLEAN
    /\ UNCHANGED << whTasks, watch_heartbeat_task, whCancelled, whSession, whShut, whJoin >>
    /\ UNCHANGED whFrame

\* process_playstatus reaches _record_watch_time (lines 192-208) and returns:
\* a playing update opens a session when none is open and ensures the
\* heartbeat; any other update closes the session.
WhRecordWatchTime ==
    /\ whProc = "busy"
    /\ IF whUpdate
       THEN IF ~whSession
            THEN whSession' = TRUE /\ WhEnsureWatchHeartbeat
            ELSE UNCHANGED << whSession, whTasks, watch_heartbeat_task >>
       ELSE /\ whSession' = FALSE
            /\ UNCHANGED << whTasks, watch_heartbeat_task >>
    /\ WhProcessorLoops
    /\ UNCHANGED << whCancelled, whUpdate, whShut, whJoin >>
    /\ UNCHANGED whFrame

\* process_playstatus raised before _record_watch_time (lines 151-152).
WhUpdateFails ==
    /\ whProc = "busy"
    /\ WhProcessorLoops
    /\ UNCHANGED << whTasks, watch_heartbeat_task, whCancelled, whSession, whUpdate, whShut, whJoin >>
    /\ UNCHANGED whFrame

\* The finally block of _watch_heartbeat_loop (lines 246-247): the reference
\* is cleared, whatever it holds, and the task is done.
WhTaskEnds(i) ==
    /\ whTasks' = [whTasks EXCEPT ![i].pc = "done"]
    /\ watch_heartbeat_task' = 0

\* The top of the heartbeat's loop (line 232).
WhHeartbeatLoops(i) ==
    IF whCancelled
    THEN WhTaskEnds(i)
    ELSE /\ whTasks' = [whTasks EXCEPT ![i].pc = "sleep"]
         /\ UNCHANGED watch_heartbeat_task

\* The first step of a heartbeat task.  A task cancelled before it ever ran
\* never enters the coroutine, so its finally block does not run.
WhTaskStarts(i) ==
    /\ i \in 1..Len(whTasks)
    /\ whTasks[i].pc = "created"
    /\ IF whTasks[i].cancelReq
       THEN /\ whTasks' = [whTasks EXCEPT ![i].pc = "done"]
            /\ UNCHANGED watch_heartbeat_task
       ELSE WhHeartbeatLoops(i)
    /\ UNCHANGED << whCancelled, whSession, whProc, whUpdate, whShut, whJoin >>
    /\ UNCHANGED whFrame

\* The sleep is over (lines 233-235): a tick with a session open flushes,
\* one without goes back to the top of the loop.
WhTaskWakes(i) ==
    /\ i \in 1..Len(whTasks)
    /\ whTasks[i].pc = "sleep"
    /\ ~whTasks[i].cancelReq
    /\ IF whSession
       THEN /\ whTasks' = [whTasks EXCEPT ![i].pc = "flush"]
            /\ UNCHANGED watch_heartbeat_task
       ELSE WhHeartbeatLoops(i)
    /\ UNCHANGED << whCancelled, whSession, whProc, whUpdate, whShut, whJoin >>
    /\ UNCHANGED whFrame

\* The tick's flush and mark_device_seen returned, or raised and were logged
\* (lines 237-243).
WhTaskTickEnds(i) ==
    /\ i \in 1..Len(whTasks)
    /\ whTasks[i].pc = "flush"
    /\ ~whTasks[i].cancelReq
    /\ WhHeartbeatLoops(i)
    /\ UNCHANGED << whCancelled, whSession, whProc, whUpdate, whShut, whJoin >>
    /\ UNCHANGED whFrame

\* The CancelledError reaches the heartbeat at its await (lines 240-241,
\* 244-247).
WhTaskCancelled(i) ==
    /\ i \in 1..Len(whTasks)
    /\ whTasks[i].pc \in {"sleep", "flush"}
    /\ whTasks[i].cancelReq
    /\ WhTaskEnds(i)
    /\ UNCHANGED << whCancelled, whSession, whProc, whUpdate, whShut, whJoin >>
    /\ UNCHANGED whFrame

\* cancel() starts (lines 386-387): cancelled is set and the closing flush
\* of the watch session is awaited.
WhCancelBegin ==
    /\ whShut = "run"
    /\ whCancelled' = TRUE
    /\ whShut' = "flush"
    /\ UNCHANGED << whTasks, watch_heartbeat_task, whSession, whProc, whUpdate, whJoin >>
    /\ UNCHANGED whFrame

\* The flush returned: the session is closed (line 223) and disconnect is
\* awaited (line 388).
WhCancelFlushed ==
    /\ whShut = "flush"
    /\ whSession' = FALSE
    /\ whShut' = "disconnect"
    /\ UNCHANGED << whTasks, watch_heartbeat_task, whCancelled, whProc, whUpdate, whJoin >>
    /\ UNCHANGED whFrame

\* The flush or the disconnect raised: cancel() ends there.
WhCancelFails ==
    /\ whShut \in {"flush", "disconnect"}
    /\ whShut' = "failed"
    /\ UNCHANGED << whTasks, watch_heartbeat_task, whCancelled, whSession, whProc, whUpdate, whJoin >>
    /\ UNCHANGED whFrame

\* disconnect returned; processor_task.cancel() (lines 389-390) and
\* _cancel_skip_task is awaited (line 391).  A processor waiting for an update
\* ends; one busy with an update ends at its await, or is inside
\* _cancel_skip_task, whose `except CancelledError: pass` (lines 314-315)
\* swallows the cancellation, and goes on with the update.
WhCancelProcessor ==
    /\ whShut = "disconnect"
    /\ \E swallowed \in BOOLEAN :
          whProc' = IF whProc = "busy" /\ swallowed THEN "busy" ELSE "done"
    /\ whShut' = "skip"
    /\ UNCHANGED << whTasks, watch_heartbeat_task, whCancelled, whSession, whUpdate, whJoin >>
    /\ UNCHANGED whFrame

\* _cancel_skip_task returned; the heartbeat the reference names is
\* cancelled and handed to the gather (lines 392-393, 398-411).
WhCancelHeartbeat ==
    /\ whShut = "skip"
    /\ whTasks' = IF watch_heartbeat_task # 0
                     /\ whTasks[watch_heartbeat_task].pc # "done"
                  THEN [whTasks EXCEPT ![watch_heartbeat_task].cancelReq = TRUE]
                  ELSE whTasks
    /\ whJoin' = watch_heartbeat_task
    /\ whShut' = "join"
    /\ UNCHANGED << watch_heartbeat_task, whCancelled, whSession, whProc, whUpdate >>
    /\ UNCHANGED whFrame

\* The gather returned (lines 399-412): the processor and the heartbeat
\* handed to it are done, and the reference is cleared.  The event loop runs
\* callbacks in the order they were scheduled, so a heartbeat the processor
\* created before it ended has had its first step by then.
WhCancelJoined ==
    /\ whShut = "join"
    /\ whProc = "done"
    /\ whJoin # 0 => whTasks[whJoin].pc = "done"
    /\ \A i \in 1..Len(whTasks) : whTasks[i].pc # "created"
    /\ watch_heartbeat_task' = 0
    /\ whShut' = "done"
    /\ UNCHANGED << whTasks, whCancelled, whSession, whProc, whUpdate, whJoin >>
    /\ UNCHANGED whFrame

\* A controller that was just constructed (lines 39-64).
WhInit ==
    /\ whTasks = << >>
    /\ watch_heartbeat_task = 0
    /\ whCancelled = FALSE
    /\ whSession = FALSE
    /\ whProc = "get"
    /\ whUpdate = FALSE
    /\ whShut = "run"
    /\ whJoin = 0

WhNext ==
    \/ WhTakeUpdate
    \/ WhRecordWatchTime
    \/ WhUpdateFails
    \/ \E i \in 1..MaxHeartbeats : WhTaskStarts(i)
    \/ \E i \in 1..MaxHeartbeats : WhTaskWakes(i)
    \/ \E i \in 1..MaxHeartbeats : WhTaskTickEnds(i)
    \/ \E i \in 1..MaxHeartbeats : WhTaskCancelled(i)
    \/ WhCancelBegin
    \/ WhCancelFlushed
    \/ WhCancelFails
    \/ WhCancelProcessor
    \/ WhCancelHeartbeat
    \/ WhCancelJoined

InitWh ==
    /\ CtlInit /\ RecIdle /\ SessIdle /\ SkipIdle
    /\ SupIdle /\ StatIdle /\ CntIdle /\ PrefIdle /\ CfgIdle /\ MrgIdle /\ WhInit

SpecWh == InitWh /\ [][WhNext]_vars

\* ------------------------------------------------------------------ claims
Idle == procPc = "get"
ProcessedOk == Idle /\ lastResult = "ok"

\* C1: at most one skip task is pending or running at any time, and a new
\* skip task is created only when no other skip task is still alive (the
\* previous one was cancelled and has finished).
C1_AtMostOneAlive == Cardinality(AliveTasks) <= 1
C1_InstallStep ==
    \A t \in TaskIds :
        (tasks[t].pc = "none" /\ tasks'[t].pc = "new")
            => \A u \in TaskIds \ {t} : ~TaskAlive(u)
C1_SingleSkipTask == [](C1_AtMostOneAlive) /\ [][C1_InstallStep]_vars
\* A plan was replaced: an earlier task ended by cancellation, a later one is alive.
C1_Witness ==
    \E t \in TaskIds : \E u \in TaskIds :
        u < t /\ TaskAlive(t) /\ tasks[u].pc = "done" /\ tasks[u].cancelReq

\* C3: once an update that changed the cpn or the video id has been processed,
\* no skip task planned for the previous cpn/video is still pending, and no
\* seek planned for the previous cpn/video is issued.
C3_NoSkipOutlivesPlayback ==
    /\ ProcessedOk =>
          \A t \in AliveTasks :
              tasks[t].video = current_video_id /\ tasks[t].cpn = current_cpn
    /\ ~seekLog.stale

\* C4: after processing an update that is not (playing with a non-empty range
\* list), no scheduled skip exists.  Stated for the case the claim singles
\* out: the update is playing and names a video whose range list is empty.
C4_OtherwiseNoSkip ==
    (ProcessedOk /\ cur.state = PLAYING /\ cur.video # None
                 /\ SegmentsOf(cur.video) = << >>)
        => (skip_task = 0 /\ AliveTasks = {})

\* C5: only a skip task created under the current cpn adds UUIDs to the
\* completed set; a task of a previous cpn never does.
C5_CompletedStep ==
    \A t \in TaskIds :
        ( /\ tasks[t].pc = "record"
          /\ tasks'[t].pc = "done"
          /\ completed_segment_uuids' # completed_segment_uuids )
            => tasks[t].cpn = current_cpn
C5_OnlyCurrentCpnCompletes == [][C5_CompletedStep]_vars

\* C6: no skip is scheduled (pending: created or sleeping) for a range all of
\* whose UUIDs are in the completed set.
C6_NoCompletedRangeScheduled ==
    \A t \in TaskIds :
        tasks[t].pc \in {"new", "sleep"}
            => ~(tasks[t].UUID \subseteq completed_segment_uuids)
\* After the first range fired, a later update of the same playback at a
\* position before or inside that range scheduled the second range instead.
C6_Witness ==
    /\ ProcessedOk
    /\ "u1" \in completed_segment_uuids
    /\ cur.state = PLAYING /\ cur.video = "v1" /\ cur.pos \in {0, 600}
    /\ cur.cpn = current_cpn
    /\ skip_task = cur.seq
    /\ tasks[cur.seq].pc = "new"
    /\ tasks[cur.seq].UUID = {"u2"}

\* C7: the queue never holds more than one update; process_playstatus runs at
\* most once per update received and, once everything is consumed, at least
\* once and last on the last update received; the last update received is
\* eventually processed unless a newer one arrives.
C7_Safe ==
    /\ Len(state_queue) <= 1
    /\ nProcessed <= nReceived
    /\ (nReceived >= 1 /\ Idle /\ state_queue = << >>)
          => (nProcessed >= 1 /\ lastProcSeq = nReceived)
C7_Coalescing ==
    /\ [](C7_Safe)
    /\ \A k \in 1..MaxUpdates :
          (nReceived = k) ~> (lastProcSeq = k \/ nReceived > k)
\* All updates were delivered, one was dropped, the last one was processed.
C7_Witness ==
    /\ nReceived = MaxUpdates
    /\ Idle /\ state_queue = << >>
    /\ nProcessed < nReceived
    /\ lastProcSeq = nReceived

\* C8: updates are taken for processing one at a time, in receive order, each
\* at most once: an update is taken only when the previous one is finished,
\* and its seq is greater than every seq taken before.
C8_TakeStep ==
    (nProcessed' # nProcessed \/ lastProcSeq' # lastProcSeq)
        => /\ Idle
           /\ nProcessed' = nProcessed + 1
           /\ lastProcSeq' > lastProcSeq
           /\ lastProcSeq' <= nReceived
C8_ProcessedInReceiveOrder == [][C8_TakeStep]_vars
\* The second update was dropped: the processed sequence is 1, 3.
C8_Witness ==
    /\ nProcessed = 2 /\ lastProcSeq = 3 /\ lastResult = "ok"

\* C2: for every screen_id, at every moment, at most one supervisor (loop task
\* and lounge session) is alive.
C2_OneSupervisorPerScreen ==
    \A d \in ScreenIds : Cardinality(AliveFor(d)) <= 1

\* C9: when a tick whose starts and stops all succeeded has completed, the
\* live handle map has exactly the screen_ids the tick read from the table,
\* and every supervisor that was in the live map when the tick began and is
\* no longer in it has been stopped; so after a tick that read an empty
\* table the map is empty and every previously live supervisor is stopped.
CleanTickDone == monPc = "sleep" /\ tick = "clean"
C9_Convergence ==
    CleanTickDone =>
        /\ DOMAIN listeners = DOMAIN desired
        /\ \A i \in tickStartLive \ LiveSups :
              sups[i] = StoppedSup(sups[i].screen_id)
        /\ desired = EmptyMap =>
              /\ listeners = EmptyMap
              /\ \A i \in tickStartLive : ~sups[i].loop /\ ~sups[i].ctl
\* A clean tick read an empty table while supervisors were live.
C9_Witness ==
    CleanTickDone /\ desired = EmptyMap /\ tickStartLive # {}

\* C10: in a tick, a live supervisor whose screen_id is still desired is
\* stopped and replaced if and only if the stored snapshot differs from the
\* running one in name, in overrides, or by more than 1 ms in offset;
\* otherwise it is left running and its handle is unchanged.
DiffersPerSpec(existing, new) ==
    \/ existing.name # new.name
    \/ existing.overrides # new.overrides
    \/ Abs(existing.offset - new.offset) > 1
C10_VisitStep ==
    \A d \in ScreenIds :
        (monPc = "loop1" /\ d \in todo /\ d \notin todo' /\ d \in DOMAIN listeners)
            => IF DiffersPerSpec(listeners[d].snapshot, desired[d])
               THEN monPc' = "restart" /\ visiting' = d
               ELSE monPc' = "loop1" /\ listeners' = listeners /\ sups' = sups
C10_ReplacedIffChanged == [][C10_VisitStep]_vars

\* C11: when the start of a supervisor fails in a tick (for a new device or for
\* the replacement of a changed one), no handle for that screen_id is in the
\* live map afterwards and the tick goes on with the remaining devices; a
\* handle appears for a screen_id only by a start that succeeded; and a tick
\* that visits a desired screen_id without a handle attempts its start.  A
\* start that runtime shutdown interrupts is not a failed start.
StartFailedFor(d) ==
    nStarts' = nStarts + 1 /\ sups'[nStarts'] = FailedStartSup(d)
StartAttemptedFor(d) ==
    nStarts' = nStarts + 1 /\ sups'[nStarts'].screen_id = d
C11_Step ==
    \A d \in ScreenIds :
      monPc' # "stopping" =>
        /\ StartFailedFor(d) =>
              /\ d \notin DOMAIN listeners'
              /\ monPc' = "loop1"
              /\ todo' = todo \ {d}
              /\ desired' = desired
        /\ (monPc \in {"loop1", "restart", "loop2"}
                /\ d \notin DOMAIN listeners /\ d \in DOMAIN listeners')
              => sups'[nStarts'] = RunningSup(d) /\ listeners'[d].sup = nStarts'
        /\ (monPc = "loop1" /\ d \in todo /\ d \notin todo' /\ d \notin DOMAIN listeners)
              => StartAttemptedFor(d)
C11_FailedStartNotRecordedRetried == [][C11_Step]_vars
\* A start failed for a screen_id and a later tick's retry succeeded.
C11_Witness ==
    \E d \in ScreenIds : \E i \in SupIds : \E j \in SupIds :
        /\ i < j
        /\ sups[i] = FailedStartSup(d)
        /\ d \in DOMAIN listeners /\ listeners[d].sup = j
        /\ sups[j] = RunningSup(d)

\* C12: when finish has closed the shared client session and its connector,
\* the reconciler task has ended and every supervisor that was ever started
\* is stopped, also when the shutdown interrupted the reconciler in a start
\* or in the stop of a removed device.  Stated for runs in which no start and
\* no stop raised, and for the loop task and lounge session of a supervisor.
C12_ClientOutlivesSupervisors ==
    (monPc = "closed" /\ ~faults) => \A i \in SupIds : ~sups[i].loop

\* C13: cancel() flushes the watch session, then cancels the scheduled skip,
\* then disconnects the lounge session, then joins the tasks; in particular,
\* once the session is disconnected no skip is scheduled any more.
C13_SkipCancelledBeforeDisconnect ==
    (shutPc \in {"cancelskip", "join", "done"} /\ ~connected) => ~skipPending

\* C14: whenever the controller is between updates, a watch session is open
\* iff the state of the update last taken for processing was playing, also
\* when the processing of an update failed part-way.
BetweenUpdates == sPc = "get" /\ shutPc = "run"
C14_SessionOpenIffPlaying ==
    BetweenUpdates => ((playback_started_at # -1) <=> (lastState = PLAYING))

\* C15: the watch_time_seconds increments written for a session add up to the
\* time between its start and its close: when no session is open and no write
\* is in flight, the increments written so far equal the total length of the
\* sessions closed so far.
NoWriteInFlight == sPend = NoWrite /\ hbPend = NoWrite /\ shutPend = NoWrite
C15_WatchTimeExact ==
    (shutPc = "run" /\ playback_started_at = -1 /\ NoWriteInFlight)
        => watchBalance = 0

\* An update was processed to its end: process_playstatus returned normally.
SessProcessed ==
    /\ SessFetched \/ SessFlushWritten \/ SessFinalWritten
    /\ sPc' \in {"get", "done"}

\* A step that closes an open watch session.
SessCloses == playback_started_at # -1 /\ playback_started_at' = -1

\* A closing step lands the write of the closing flush, or it found nothing
\* left to flush at its closing time.
ClosingFlushWritten ==
    \/ sPc \in {"resetw", "finalw"} /\ sPend.delta > 0 /\ sPend' = NoWrite
    \/ shutPc = "flushw" /\ shutPend.delta > 0 /\ shutPend' = NoWrite
    \/ sPc \in {"seen", "fetch"} /\ sPc' # sPc /\ ~FlushWrites(sCur.t)
    \/ shutPc = "run" /\ shutPc' # "run" /\ ~FlushWrites(clock)

C16_Step ==
    /\ (SessProcessed /\ sCur.state # PLAYING) => playback_started_at' = -1
    /\ ((SessSeen \/ SessResetWritten) /\ sCur.reset /\ sPc' = "fetch")
          => playback_started_at' = -1
    /\ (shutPc \in {"run", "flushw"} /\ shutPc' = "disconnect")
          => playback_started_at' = -1
    /\ SessCloses => ClosingFlushWritten
    /\ shutPc = "done"
          => /\ watchBalance' = watchBalance
             /\ sPc = "done" /\ ~HeartbeatAlive /\ NoWriteInFlight

RangeQualifies(r, p, completed) ==
    /\ ~(r.start > r.end)
    /\ ~(\A u \in r.UUID : u \in completed)
    /\ \/ r.start <= p /\ p < r.end - SEGMENT_EPSILON
       \/ r.start > p

\* _schedule_skip has run and the completed set is still the one it saw.
SkipScheduled == kPc \notin {"off", "schedule"} /\ ~kCounted

\* C17: once _schedule_skip has run, the selected range is the first range of
\* the list that qualifies, nothing is selected when none qualifies, and the
\* plan starts at p when p lies inside the selected range and at the range's
\* start otherwise.
C17_SkipSelection ==
    SkipScheduled =>
      LET qualifying == { i \in 1..Len(kSegments) :
                            RangeQualifies(kSegments[i], kPosition, kCompleted) }
      IN  /\ qualifying = {} => (kSel = 0 /\ kPc = "none" /\ ~kSlot)
          /\ qualifying # {} =>
                /\ kSel \in qualifying
                /\ \A j \in qualifying : kSel <= j
                /\ kPlan.end = kSegments[kSel].end
                /\ kPlan.UUID = kSegments[kSel].UUID
                /\ kPlan.start =
                     IF kSegments[kSel].start <= kPosition
                        /\ kPosition < kSegments[kSel].end
                     THEN kPosition
                     ELSE kSegments[kSel].start

\* The first range of the list was passed over, the second was selected, and
\* the position lies inside it.
C17_Witness ==
    /\ SkipScheduled
    /\ kSel = 2
    /\ kPlan.start = kPosition
    /\ kPosition > kSegments[2].start

SkipWaitComputed == kPc \in {"sleep", "calls", "record", "done"}
SkipFired == kFiredAt # -1

\* C18: the wait of an installed skip is
\* max((plan_start - p - elapsed) / playback_speed - offset, 0); the calls are
\* issued that long after the task ran.  With p before the range and speed 1
\* the calls are issued when playback reaches the range start less the offset
\* (unless that moment had passed when the task ran); with p inside the range
\* the wait is 0.
C18_SkipWait ==
    SkipWaitComputed =>
      LET raw == ((kPlan.start - kPosition - kElapsed) \div kSpeed) - kOffset
      IN  /\ kWait = IF raw > 0 THEN raw ELSE 0
          /\ kWait >= 0
          /\ SkipFired => kFiredAt = kElapsed + kWait
          /\ (/\ SkipFired
              /\ kPlan.start > kPosition
              /\ kSpeed = 1
              /\ kElapsed <= kPlan.start - kPosition - kOffset)
                => kFiredAt = kPlan.start - kPosition - kOffset
          /\ kPlan.start = kPosition
                => (kWait = 0 /\ (SkipFired => kFiredAt = kElapsed))

\* Range start 5.0 s, position 0, speed 1, offset 0.3 s: fired 4.7 s after
\* the update.
C18_Witness ==
    /\ SkipFired
    /\ kPosition = 0
    /\ kPlan.start = 500
    /\ kSpeed = 1
    /\ kOffset = 30
    /\ kElapsed = 20
    /\ kFiredAt = 470

\* C19: a skip that fired and was recorded sought to the end of the selected
\* range, added the number of its UUIDs to segments_skipped,
\* max(plan_end - plan_start, 0) to time_saved_seconds (plan_start being the
\* position when it lies inside the range) and one tick per category, added
\* its UUIDs to the completed set and cleared the slot.
C19_SkipRecorded ==
    kCounted =>
      LET r == kSegments[kSel]
          plan_start == IF r.start <= kPosition /\ kPosition < r.end
                        THEN kPosition ELSE r.start
      IN  /\ kSeekTo = r.end
          /\ kStats.segments_skipped = Cardinality(r.UUID)
          /\ kStats.time_saved_seconds =
                IF r.end - plan_start > 0 THEN r.end - plan_start ELSE 0
          /\ \A c \in Categories :
                kStats.skip_category[c] = Occurrences(r.categories, c)
          /\ r.UUID \subseteq kCompleted
          /\ ~kSlot
          /\ kPc = "done"

\* Range 5.0-10.0 s, position 6.0 s: sought to 10.0 s, 4.0 s saved.
C19_Witness ==
    /\ kCounted
    /\ kPosition = 600
    /\ kSeekTo = 1000
    /\ kStats.time_saved_seconds = 400
    /\ kStats.segments_skipped = 1
    /\ kStats.skip_category["sponsor"] = 1

\* C20: a skip whose seek or mark-viewed call failed is counted all the same
\* once its task has ended.
C20_CountedDespiteCalls ==
    (kPc = "done" /\ (kSeek = "failed" \/ kMark = "failed")) => kCounted

\* _schedule_skip selected a range.
PlanSelected == kPc \notin {"off", "schedule"} /\ kSel # 0

\* The skip scheduled before the update was for the update's video and its
\* plan start is within 0.05 s of the new plan start.
PriorIsSamePlan ==
    /\ kPrior # NoPrior
    /\ kPrior.video = kVideo
    /\ kPrior.start - kPlan.start < 5
    /\ kPlan.start - kPrior.start < 5

\* C21: when an update selects a plan while a skip is pending for the same
\* video with a plan start within 0.05 s of the new one, the pending skip is
\* left as it is and nothing is installed; in every other case the pending
\* skip is cancelled and the new plan is installed.
C21_ReplacementRule ==
    PlanSelected =>
      IF PriorIsSamePlan
      THEN kPc = "kept" /\ kPriorPc = "pending" /\ kSlot /\ kFiredAt = -1
      ELSE /\ kPc # "kept"
           /\ kPrior # NoPrior => kPriorPc = "cancelled"
           /\ kPc = "new" => kSlot

\* A pending skip 0.04 s from the new plan start was kept.
C21_Witness ==
    /\ kPc = "kept"
    /\ kPrior.start = 504
    /\ kPlan.start = 500

\* A pending skip of another video, or one 0.05 s away, was replaced.
C21_WitnessReplaced ==
    /\ kPc = "new"
    /\ kPriorPc = "cancelled"
    /\ \/ kPrior.video # kVideo /\ kPrior.start = kPlan.start
       \/ kPrior.video = kVideo /\ kPrior.start = 505 /\ kPlan.start = 500

C22_Step ==
    /\ (lastResult = "running" /\ lastResult' = "failed")
          => /\ procPc' = "get"
             /\ state_queue' = state_queue
             /\ tasks' = tasks
    /\ \A t \in TaskIds :
          TaskFail(t)
             => /\ procPc' = procPc
                /\ lastResult' = lastResult
                /\ state_queue' = state_queue
                /\ cur' = cur
    /\ (procPc = "cancelwait" /\ procPc' # "cancelwait")
          => procPc' = "get" /\ lastResult' = "ok"

\* C22: a failed segment fetch or stats write sends the processor back to its
\* queue with the queued update kept; a failed seek or stats write of the skip
\* task leaves the processor where it is; an update whose processing cancelled
\* a scheduled skip ends normally; and under the event loop's scheduling the
\* processor always comes back to an empty queue, every update taken.
C22_FailuresDoNotStopController ==
    /\ [][C22_Step]_vars
    /\ []<>(procPc = "get" /\ state_queue = << >>)

\* An update failed and the processor waits on its queue with the next update
\* already there.
C22_Witness ==
    /\ lastResult = "failed"
    /\ procPc = "get"
    /\ state_queue # << >>
    /\ nProcessed >= 1

\* C23: after stop_listener has cancelled the loop task and the refresh task
\* and awaits them, both tasks finish and stop_listener returns, whatever
\* the loop was doing and whatever the device does afterwards.
C23_StopTerminates == (stopPc = "join") ~> (stopPc = "done")

C25_GlobalIsSumOfDevices ==
    stTable # << >> =>
        \A m \in AdditiveMetrics :
            stTable[GLOBAL_DEVICE_ID][m] = stTable["d1"][m] + stTable["d2"][m]

\* Both devices have committed increments while another writer's transaction
\* is open.
C25_Witness ==
    /\ stTable # << >>
    /\ stTable["d1"]["videos_watched"] > 0
    /\ stTable["d2"]["videos_watched"] > 0
    /\ \E w \in StatsWriters : stConn[w].pc = "second" /\ stLock = w
    /\ \E w \in StatsWriters : stConn[w].pc = "first"

\* C26: process_playstatus awaits record_video_started exactly for an update
\* whose video id is present and differs from the controller's current one,
\* and videos_watched grows by 1 when that call returns and by nothing in any
\* other step.
C26_Step ==
    /\ (procPc = "seen" /\ procPc' \in {"vstart", "fetch"}) =>
          ((procPc' = "vstart") <=>
              (cur.video # None /\ cur.video # current_video_id))
    /\ procPc' = "vstart" => procPc \in {"seen", "vstart"}
    /\ videos_watched' =
          videos_watched + (IF procPc = "vstart" /\ procPc' = "fetch" THEN 1 ELSE 0)

C26_VideosWatched == [][C26_Step]_vars

\* Three updates were processed, for v1, v2 and v1 again, and each was counted.
C26_Witness ==
    /\ nProcessed = 3
    /\ videos_watched = 3
    /\ current_video_id = "v1"
    /\ procPc = "get"

\* C27: the preferences a supervisor is started with are the configuration
\* masked by the snapshot's overrides: without overrides every field is the
\* configuration's; with overrides each automation flag, the skip-category
\* list and the channel whitelist are the override's where the key is present
\* and the configuration's where it is absent.
C27_ResolutionIsMasking ==
    pPc = "started" =>
        /\ pOverrides = EmptyOverrides =>
              \A f \in DOMAIN pPrefs : pPrefs[f] = pConfig[f]
        /\ \A k \in ALLOWED_AUTOMATION_KEYS :
              pPrefs[k] = IF k \in DOMAIN pOverrides.automation
                          THEN pOverrides.automation[k] ELSE pConfig[k]
        /\ pPrefs.skip_categories =
              IF pOverrides.skip_categories.tag = "list"
              THEN pOverrides.skip_categories.items ELSE pConfig.skip_categories
        /\ pPrefs.channel_whitelist =
              IF pOverrides.channel_whitelist.tag = "list"
              THEN pOverrides.channel_whitelist.items ELSE pConfig.channel_whitelist

\* A supervisor started with an override of skip_ads that differs from the
\* configuration's, no override of mute_ads, its own category list and the
\* configuration's whitelist.
C27_Witness ==
    /\ pPc = "started"
    /\ "skip_ads" \in DOMAIN pOverrides.automation
    /\ "mute_ads" \notin DOMAIN pOverrides.automation
    /\ pPrefs.skip_ads # pConfig.skip_ads
    /\ pPrefs.mute_ads = TRUE
    /\ pOverrides.skip_categories.tag = "list"
    /\ pPrefs.skip_categories # pConfig.skip_categories
    /\ pOverrides.channel_whitelist.tag = "absent"
    /\ pPrefs.channel_whitelist # << >>

\* The stored overrides are an object whose lists, where given, are lists.
StoredOverridesWellFormed ==
    /\ pRaw.kind = "object"
    /\ pRaw.skip_categories.tag # "scalar"
    /\ pRaw.channel_whitelist.tag # "scalar"

\* C28: for a stored overrides object, skip_categories null gives the
\* supervisor the configuration's skip categories and skip_categories []
\* gives it none.
C28_NullAndEmptyDistinguished ==
    (pPc = "started" /\ StoredOverridesWellFormed) =>
        /\ pRaw.skip_categories.tag = "null" =>
              pPrefs.skip_categories = pConfig.skip_categories
        /\ (pRaw.skip_categories.tag = "list" /\ pRaw.skip_categories.items = << >>) =>
              pPrefs.skip_categories = << >>

\* A supervisor started from stored overrides with skip_categories [].
C28_Witness ==
    /\ pPc = "started"
    /\ StoredOverridesWellFormed
    /\ pRaw.skip_categories.tag = "list"
    /\ pRaw.skip_categories.items = << >>
    /\ pPrefs.skip_categories = << >>
    /\ pConfig.skip_categories # << >>

\* A supervisor started from stored overrides with skip_categories null.
C28_WitnessNull ==
    /\ pPc = "started"
    /\ StoredOverridesWellFormed
    /\ pRaw.skip_categories.tag = "null"
    /\ pPrefs.skip_categories = pConfig.skip_categories

\* C29: a supervisor started after the management API changed the settings
\* has the preferences resolved from the settings stored when it started.
C29_StartUsesStoredSettings ==
    (cSup # << >> /\ cSup.running /\ cSup.afterEdit) =>
        cSup.prefs = ResolvePreferences(cSup.store, EmptyOverrides)

\* C30: a supervisor started after the management API changed the settings
\* uses a client session that honours the proxy environment exactly when the
\* stored use_proxy was true when it started.
C30_ClientFollowsUseProxy ==
    (cSup # << >> /\ cSup.running /\ cSup.afterEdit) =>
        cSup.trust_env = cSup.store.use_proxy

\* The three top-level keys of the overrides.
OverrideKeys == {"automation", "skip_categories", "channel_whitelist"}

\* The stored value of a key, << >> or tag "absent" meaning no override.
NoOverride(overrides, k) ==
    IF k = "automation" THEN overrides[k] = << >> ELSE overrides[k].tag = "absent"

\* C31: merging an object payload that did not raise removes the override of
\* every top-level key the payload gives as null and leaves unchanged the
\* override of every key the payload omits.
C31_NullClearsOmittedKeeps ==
    (mPc = "merged" /\ mPayload.kind = "object" /\ ~mResult.raised) =>
        \A k \in OverrideKeys :
            /\ mPayload[k].tag = "null" => NoOverride(mResult, k)
            /\ mPayload[k].tag = "absent" => mResult[k] = mExisting[k]

\* A payload with skip_categories null and the other keys omitted was merged
\* into stored overrides that had all three keys: the category override is
\* gone and the other two are as stored.
C31_Witness ==
    /\ mPc = "merged"
    /\ mPayload.kind = "object"
    /\ mPayload.skip_categories.tag = "null"
    /\ mPayload.automation.tag = "absent"
    /\ mPayload.channel_whitelist.tag = "absent"
    /\ \A k \in OverrideKeys : ~NoOverride(mExisting, k)
    /\ NoOverride(mResult, "skip_categories")
    /\ mResult.automation = mExisting.automation
    /\ mResult.channel_whitelist = mExisting.channel_whitelist

\* C32: a heartbeat tick that finds a session open flushes the time since the
\* last flush and then awaits mark_device_seen; a tick that finds none writes
\* nothing; once cancel() has returned no heartbeat task is running; and
\* while a session is open and the controller is not cancelled, a tick that
\* is due takes place.
C32_Step ==
    LET hbTicks == /\ hbPc = "sleep"
                /\ shutPc' = shutPc
                /\ (hbPc' # "sleep" \/ hbWake' # hbWake)
    IN  /\ (hbTicks /\ playback_started_at # -1) =>
              \/ /\ hbPc' = "write"
                 /\ hbPend' = [delta |-> clock - LastEmit, now |-> clock]
                 /\ hbPend'.delta > 0
              \/ /\ hbPc' = "seen"
                 /\ clock - LastEmit <= 0
        /\ (hbTicks /\ playback_started_at = -1) =>
              /\ hbPc' \notin {"write", "seen"}
              /\ hbPend' = hbPend
              /\ watchBalance' = watchBalance
        /\ (hbPc = "write" /\ hbPc' = "seen") =>
              /\ last_watch_emit_at' = hbPend.now
              /\ watchBalance' = watchBalance + hbPend.delta

HeartbeatTickDue ==
    /\ playback_started_at # -1
    /\ ~cancelled
    /\ hbWake # 0
    /\ clock >= hbWake

C33_Step ==
    LET sinceFlush == sCur.t - LastEmit
        playingInSession ==
            sPc = "fetch" /\ sCur.state = PLAYING /\ playback_started_at # -1
    IN  /\ (sPc = "fetch" /\ sPc' = "flushw") =>
              /\ playingInSession
              /\ sinceFlush >= WATCH_FLUSH_INTERVAL
              /\ sPend' = [delta |-> sinceFlush, now |-> sCur.t]
        /\ (playingInSession /\ sinceFlush < WATCH_FLUSH_INTERVAL /\ sPc' # sPc) =>
              /\ sPend' = NoWrite
              /\ last_watch_emit_at' = last_watch_emit_at
              /\ watchBalance' = watchBalance
        /\ (sPend' # sPend /\ sPend' # NoWrite) => sPend'.delta > 0
        /\ (hbPend' # hbPend /\ hbPend' # NoWrite) => hbPend'.delta > 0
        /\ (shutPend' # shutPend /\ shutPend' # NoWrite) => shutPend'.delta > 0

C34_BookkeepingWhole ==
    (kPc = "cancelled" /\ kSeek = "ok" /\ kMark = "ok") =>
        /\ kStats.segments_skipped = Cardinality(kPlan.UUID)
        /\ kStats.time_saved_seconds = SavedDuration(kPlan.end, kPlan.start)
        /\ \A c \in Categories :
              kStats.skip_category[c] = Occurrences(kPlan.categories, c)
        /\ kPlan.UUID \subseteq kCompleted

\* C35: once cancel() has returned the controller has no scheduled skip, its
\* processor and heartbeat have ended, and no watch session is open, however
\* cancel() interleaved with the update being processed.
C35_NothingLeftAfterCancel ==
    shutPc = "done" =>
        /\ ~skipPending
        /\ sPc = "done"
        /\ ~HeartbeatAlive
        /\ playback_started_at = -1

\* C36: while the devices table is as it was when the runtime started, the
\* reconciler stops, starts and restarts nothing: the supervisors are the ones
\* started at boot, all running and all in the live map with their boot
\* snapshots, and no tick is about to replace one.
C36_UnmodifiedStoreNoOp ==
    (nEdits = 0 /\ monPc \in {"sleep", "loop1", "restart", "loop2"}) =>
        /\ monPc # "restart"
        /\ nStarts = Cardinality(DOMAIN devices)
        /\ DOMAIN listeners = DOMAIN devices
        /\ \A d \in DOMAIN listeners :
              /\ sups[listeners[d].sup] = RunningSup(d)
              /\ listeners[d].snapshot = SnapshotOfRow(d, devices[d])

\* C37: when a tick has ended, every supervisor with a task still running
\* (the loop and refresh tasks, or the controller's processor) is recorded in
\* the live handle map, also when a stop or a start of the tick raised.
C37_NoOrphanSupervisors ==
    (monPc = "sleep" /\ tick \in {"clean", "failed"}) =>
        \A i \in SupIds : (sups[i].loop \/ sups[i].ctl) => i \in LiveSups

C39_Step ==
    /\ Len(whTasks') > Len(whTasks) => WhAliveTasks = {}
    /\ \A i \in 1..Len(whTasks) :
          (/\ whTasks[i].pc # "done"
           /\ whTasks'[i].pc = "done"
           /\ watch_heartbeat_task' # watch_heartbeat_task)
              => watch_heartbeat_task = i

\* C39: at most one heartbeat task of a controller is alive at any time; a
\* heartbeat is created only when none is alive; and a heartbeat that ends
\* clears the reference only when the reference names that heartbeat.
C39_OneHeartbeat ==
    /\ [](Cardinality(WhAliveTasks) <= 1)
    /\ [][C39_Step]_vars

\* After cancel() began, the first heartbeat has ended and the processor,
\* going on with a playing update, has created a second one.
C39_Witness ==
    /\ Len(whTasks) = 2
    /\ whTasks[1].pc = "done"
    /\ whTasks[2].pc = "created"
    /\ watch_heartbeat_task = 2
    /\ whCancelled

====
